---- MODULE Spec2Model ----
(***************************************************************************)
(* AiSEG2 dashboard: the appliance client (aiseg2.js) and the cache and    *)
(* broadcast server (server.js) as one state machine.                      *)
(*                                                                         *)
(* Node runs the handlers on one thread: an action of this module is the   *)
(* code that runs between two suspension points (an await on upstream I/O, *)
(* a timer, an incoming request or event).  A promise continuation that    *)
(* follows the resolution of the awaited I/O without a further upstream    *)
(* await is part of the same action.                                       *)
(*                                                                         *)
(* The module holds several specifications over the same variables, one    *)
(* for each part of the program; a specification leaves the variables of   *)
(* the other parts at their initial values.                                *)
(***************************************************************************)
EXTENDS Integers, Sequences, FiniteSets, Bags, TLC

\* ------------------------------------------------------------------------
\* JavaScript values that can be null are tagged records, so that null, NaN
\* and numbers compare with one another.
\* ------------------------------------------------------------------------

Null == [t |-> "null"]

\* A JS array held where null can be held too.
Array(items) == [t |-> "array", items |-> items]

NaN == [t |-> "nan"]

\* A number, in thousandths (kWh values carry at most three decimals here).
Num(milli) == [t |-> "num", v |-> milli]

\* A field that is not there (undefined).
Absent == "<undefined>"

Min(a, b) == IF a < b THEN a ELSE b

Max(a, b) == IF a > b THEN a ELSE b

\* ------------------------------------------------------------------------
\* parseKwh (aiseg2.js): pages and the value scraped from them
\* ------------------------------------------------------------------------

Digits == {"0", "1", "2", "3", "4", "5", "6", "7", "8", "9"}

DigitVal(c) ==
    CASE c = "0" -> 0 [] c = "1" -> 1 [] c = "2" -> 2 [] c = "3" -> 3
      [] c = "4" -> 4 [] c = "5" -> 5 [] c = "6" -> 6 [] c = "7" -> 7
      [] c = "8" -> 8 [] c = "9" -> 9

\* A page is the markup the appliance returned, reduced to what parseKwh
\* looks at: whether a <span id="val_kwh"> element is there, and the text
\* between its tags as a sequence of characters.
NoSpanPage == [span |-> FALSE, text |-> <<>>]

SpanPage(text) == [span |-> TRUE, text |-> text]

\* The characters the pattern's group ([\d.,]+) accepts.
KwhChars == Digits \cup {".", ","}

\* /<span[^>]+id="val_kwh"[^>]*>([\d.,]+)<\/span>/ matches
PatternMatches(page) ==
    /\ page.span
    /\ Len(page.text) >= 1
    /\ \A i \in 1..Len(page.text) : page.text[i] \in KwhChars

\* String.prototype.replace(',', '') with a string pattern: the first comma
\* only.
RECURSIVE ReplaceFirstComma(_)
ReplaceFirstComma(s) ==
    IF s = <<>> THEN <<>>
    ELSE IF Head(s) = "," THEN Tail(s)
    ELSE <<Head(s)>> \o ReplaceFirstComma(Tail(s))

\* The longest prefix of s made of digits.
RECURSIVE DigitPrefix(_)
DigitPrefix(s) ==
    IF s = <<>> \/ Head(s) \notin Digits THEN <<>>
    ELSE <<Head(s)>> \o DigitPrefix(Tail(s))

RECURSIVE DigitsValue(_, _)
DigitsValue(s, acc) ==
    IF s = <<>> THEN acc ELSE DigitsValue(Tail(s), acc * 10 + DigitVal(Head(s)))

\* The fraction digits as thousandths (digits after the third are dropped).
FracMilli(f) ==
    LET d(i) == IF i <= Len(f) THEN DigitVal(f[i]) ELSE 0
    IN  d(1) * 100 + d(2) * 10 + d(3)

\* parseFloat on a string of digits, dots and commas: the longest prefix of
\* the form digits [. digits]; NaN when that prefix has no digit.
ParseFloat(s) ==
    LET ip   == DigitPrefix(s)
        rest == SubSeq(s, Len(ip) + 1, Len(s))
        fp   == IF rest /= <<>> /\ Head(rest) = "."
                THEN DigitPrefix(Tail(rest)) ELSE <<>>
    IN  IF ip = <<>> /\ fp = <<>> THEN NaN
        ELSE Num(DigitsValue(ip, 0) * 1000 + FracMilli(fp))

parseKwh(page) ==
    IF PatternMatches(page) THEN ParseFloat(ReplaceFirstComma(page.text))
    ELSE Null

\* ------------------------------------------------------------------------
\* State
\* ------------------------------------------------------------------------

VARIABLES
    bulk,       \* the activation of getAllCircuitKwh: pc, circuits, i,
                \* the unsettled promises of the batch, batchResults, results
    bulkEnv     \* the appliance's behaviour for this run, and the requests
                \* issued and settled so far (history)

bulkVars == <<bulk, bulkEnv>>

VARIABLES
    dig,        \* the activation of digestFetch / devicePost: pc, the call's
                \* arguments, the requests sent so far, the value returned
    digEnv      \* what the appliance answered (history)

digVars == <<dig, digEnv>>

VARIABLES
    tot,        \* the activation of getTotals: pc, the four promises of its
                \* Promise.all (pending, or the value each resolved to),
                \* the value returned
    totEnv      \* what the appliance answers to the four page requests

totVars == <<tot, totEnv>>

VARIABLES
    act         \* the activation of one appliance-client method looked at
                \* on its own (setFHLevel, getDevices, getRealtime): pc, its
                \* arguments or what the appliance answers, the request
                \* sent, the value returned

VARIABLES
    workload,       \* the run's environment: the routes its clients GET,
                    \* the categories whose interval elapses in it, the
                    \* actions of its control requests
    now,            \* Date.now(), in ms
    ticks,          \* how often the clock has been advanced (bounds the run)
    cache,          \* server.js: cache
    nicknames,      \* server.js: nicknames, key -> name
    nicknamesFile,  \* nicknames.json: absent, or the text last written
    token,          \* aiseg2.js: _token and _tokenAt
    ops,            \* the async activations in flight (a bag): each is
                    \* suspended at an await on the appliance
    clients,        \* wss.clients: per connection "none", "open", "closing"
    pollHandle, totalsHandle, devicesHandle,    \* server.js: interval handles
    intervals,      \* the interval timers alive, per category
    starts,         \* how often polling has been started (history; bounds
                    \* the run)
    timeouts,       \* the setTimeout callbacks pending, by due time
    emitted         \* what the step just taken sent (response, frames)

wsVars == <<clients, pollHandle, totalsHandle, devicesHandle, intervals,
           starts>>

serverVars ==
    <<workload, now, ticks, cache, nicknames, nicknamesFile, token, ops, wsVars,
      timeouts, emitted>>

\* nicknames.json is not there.
NoFile == [t |-> "none"]

\* JSON.stringify(obj, null, 2) of a mapping of keys to names: the text,
\* kept as its "key": "name" members.
stringify(obj) == [t |-> "text", members |-> {<<k, obj[k]>> : k \in DOMAIN obj}]

\* JSON.parse of such a text: one property per member.
parse(text) ==
    [k \in {e[1] : e \in text.members} |->
       (CHOOSE e \in text.members : e[1] = k)[2]]

\* loadNicknames, on the file as it is: try { JSON.parse(readFileSync) }
\* catch { return {} }
loadNicknames(file) == IF file = NoFile THEN <<>> ELSE parse(file)

VARIABLES
    app         \* the page's script (app.js): ws, the sockets it has created
                \* and their readyState, reconnectDelay, reconnectTimer, the
                \* timers whose handle was overwritten, pollTimer

vars == <<bulkVars, digVars, totVars, act, app, serverVars>>

\* Sockets the page can have alive at once.
MaxSockets == 2

\* Reconnect timers that can be pending without a handle to them.
MaxStrays == 1

SocketIds == 1..MaxSockets

\* Delays are counted in quarters of a millisecond: 1_000 ms, 10_000 ms.
InitialDelay == 4000

DelayCap == 40000

\* The page is not loaded.
AppIdle ==
    app = [ws |-> 0, sockets |-> [s \in SocketIds |-> "none"],
           reconnectDelay |-> InitialDelay, reconnectTimer |-> FALSE,
           strays |-> 0, pollTimer |-> FALSE]

\* The parts at rest: what a specification of another part leaves them at.
ActIdle ==
    act = [fn |-> "none", pc |-> "idle", args |-> Null, sent |-> Null,
           ret |-> Null]

BulkIdle ==
    /\ bulk = [pc |-> "idle", circuits |-> <<>>, i |-> 0, pending |-> {},
               batchResults |-> <<>>, results |-> <<>>]
    /\ bulkEnv = [pattern |-> 1, issued |-> {}, settled |-> {}]

DigIdle ==
    /\ dig = [pc |-> "idle", call |-> [fn |-> Absent], sent |-> <<>>,
              ret |-> [n |-> 0]]
    /\ digEnv = [r1 |-> [n |-> 0], r2 |-> [n |-> 0], neterr |-> FALSE]

\* The instant the server starts at; later than every TTL, as Date.now() is.
StartTime == 4000000

\* The slots for async activations in flight.
MaxOps == 2

\* The subscriber connections.
MaxClients == 2

ClientIds == 1..MaxClients

Categories == {"realtime", "totals", "devices", "circuitKwh"}

\* cache as the module sets it up. requested is history: per category, when
\* the fetch began whose result is the payload (0: none, or not recorded).
EmptyCache ==
    [realtime |-> Null, realtimeAt |-> 0,
     totals |-> Null, totalsAt |-> 0,
     circuits |-> Null,
     circuitKwh |-> Null, circuitKwhAt |-> 0,
     devices |-> Null, devicesAt |-> 0,
     requested |-> [cat \in Categories |-> 0]]

NoOut == [kind |-> "none"]

\* stamped: the run records when each fetch began (history).
NoWorkload == [routes |-> {}, polls |-> {}, actions |-> {}, stamped |-> FALSE]

\* Date.now() when a fetch begins, in the runs that record it.
IssueTime == IF workload.stamped THEN now ELSE 0

\* The server module loaded, nothing fetched, nobody connected.
ServerLoaded ==
    /\ now = StartTime
    /\ ticks = 0
    /\ cache = EmptyCache
    /\ nicknames = <<>>
    /\ nicknamesFile = NoFile
    /\ token = [token |-> Absent, at |-> 0]
    /\ clients = [c \in ClientIds |-> "none"]
    /\ pollHandle = Null
    /\ totalsHandle = Null
    /\ devicesHandle = Null
    /\ intervals = [c \in {"realtime", "totals", "devices"} |-> 0]
    /\ starts = 0
    /\ timeouts = <<>>
    /\ emitted = NoOut

ServerIdle ==
    /\ ServerLoaded
    /\ workload = NoWorkload
    /\ ops = EmptyBag

\* ------------------------------------------------------------------------
\* getAllCircuitKwh / getCircuitKwh (aiseg2.js)
\* ------------------------------------------------------------------------

CONCURRENCY == 10

\* The longest circuit list tried.
MaxCircuits == 21

\* The appliance's behaviours tried (UpstreamKwh).
NumPatterns == 4

DigitChar(d) ==
    CASE d = 0 -> "0" [] d = 1 -> "1" [] d = 2 -> "2" [] d = 3 -> "3"
      [] d = 4 -> "4" [] d = 5 -> "5" [] d = 6 -> "6" [] d = 7 -> "7"
      [] d = 8 -> "8" [] d = 9 -> "9"

\* The text "NN.5" for circuit id NN: each circuit has its own reading.
IdText(id) == <<DigitChar((id \div 10) % 10), DigitChar(id % 10), ".", "5">>

\* What the appliance does with the request for circuit `id` under
\* behaviour p (taken modulo 4): a network error, or a page.
\*   1: every circuit has a reading;
\*   2: every third request fails, the others have a reading;
\*   3: every request fails;
\*   0: odd circuits' pages have no val_kwh span, even circuits' readings
\*      carry a group separator ("1,0NN.5").
UpstreamKwh(p, id) ==
    CASE p % 4 = 1 -> [err |-> FALSE, page |-> SpanPage(IdText(id))]
      [] p % 4 = 2 -> IF id % 3 = 0 THEN [err |-> TRUE, page |-> NoSpanPage]
                      ELSE [err |-> FALSE, page |-> SpanPage(IdText(id))]
      [] p % 4 = 3 -> [err |-> TRUE, page |-> NoSpanPage]
      [] OTHER -> IF id % 2 = 1 THEN [err |-> FALSE, page |-> NoSpanPage]
                  ELSE [err |-> FALSE,
                        page |-> SpanPage(<<"1", ",", "0">> \o IdText(id))]

\* The circuit lists tried: n circuits, ids ascending or descending.
CircuitList(n, asc) ==
    [k \in 1..n |-> LET id == IF asc THEN k ELSE n + 1 - k
                    IN  [id |-> id, name |-> id]]

\* Mutant of getCircuitKwh: a failed request counts as a reading of 0
\* (.catch(() => 0)).
getCircuitKwhZero(outcome) ==
    IF outcome.err THEN Num(0) ELSE parseKwh(outcome.page)

\* getCircuitKwh(id).catch(() => null): the value the batch receives for one
\* request once it has settled.
getCircuitKwh(outcome) ==
    IF outcome.err THEN Null ELSE parseKwh(outcome.page)

\* circuits.slice(i, i + CONCURRENCY), as the offsets j of the batch.
BatchOffsets(circuits, i) ==
    {j \in 0..(CONCURRENCY - 1) : i + j < Len(circuits)}

\* The head of the for loop at index i: the next batch is issued (every
\* request of it, synchronously), or the loop ends and results is returned.
BulkLoop(circuits, i, results) ==
    IF i < Len(circuits)
    THEN /\ bulk' = [pc |-> "await", circuits |-> circuits, i |-> i,
                     pending |-> BatchOffsets(circuits, i),
                     batchResults |-> [j \in BatchOffsets(circuits, i) |-> Null],
                     results |-> results]
         /\ bulkEnv' = [bulkEnv EXCEPT
                          !.issued = @ \cup {i + j + 1 : j \in BatchOffsets(circuits, i)}]
    ELSE /\ bulk' = [pc |-> "done", circuits |-> circuits, i |-> i,
                     pending |-> {}, batchResults |-> <<>>,
                     results |-> results]
         /\ UNCHANGED bulkEnv

\* The call: results = new Array(n).fill(null), i = 0.
BulkCall ==
    /\ bulk.pc = "idle"
    /\ BulkLoop(bulk.circuits, 0, [k \in 1..Len(bulk.circuits) |-> Null])

\* One request of the batch settles.
BulkSettle(j) ==
    /\ bulk.pc = "await"
    /\ j \in bulk.pending
    /\ LET pos == bulk.i + j + 1
           out == UpstreamKwh(bulkEnv.pattern, bulk.circuits[pos].id)
       IN  /\ bulk' = [bulk EXCEPT
                         !.pending = @ \ {j},
                         !.batchResults[j] = getCircuitKwh(out)]
           /\ bulkEnv' = [bulkEnv EXCEPT !.settled = @ \cup {pos}]

\* Mutant of BulkBatchDone: a sliding window, the loop goes on as soon as
\* one request of the batch is left.
BulkBatchDoneSliding ==
    /\ bulk.pc = "await"
    /\ Cardinality(bulk.pending) <= 1
    /\ BulkLoop(bulk.circuits, bulk.i + CONCURRENCY,
                [k \in 1..Len(bulk.results) |->
                    IF k - 1 - bulk.i \in DOMAIN bulk.batchResults
                    THEN bulk.batchResults[k - 1 - bulk.i]
                    ELSE bulk.results[k]])

\* Promise.all resolves: batchResults are copied to results[i + j] and the
\* loop goes on at i + CONCURRENCY.
BulkBatchDone ==
    /\ bulk.pc = "await"
    /\ bulk.pending = {}
    /\ BulkLoop(bulk.circuits, bulk.i + CONCURRENCY,
                [k \in 1..Len(bulk.results) |->
                    IF k - 1 - bulk.i \in DOMAIN bulk.batchResults
                    THEN bulk.batchResults[k - 1 - bulk.i]
                    ELSE bulk.results[k]])

\* ------------------------------------------------------------------------
\* Digest auth transport: md5, parseWWWAuth, digestFetch, devicePost
\* (aiseg2.js)
\* ------------------------------------------------------------------------

BASE == "http://192.168.0.216"

USER == "aiseg"

PASS == "0123456789"

\* md5 of the parts joined by ':', as a one-way function that keeps its
\* argument: two digests are equal exactly when their inputs are.
md5(parts) == <<"md5", parts>>

\* A WWW-Authenticate header is a sequence of items [k, v, quoted]; the
\* pattern (\w+)="([^"]+)" sees the quoted items with a non-empty value, and
\* a later item of the same key replaces an earlier one.
RECURSIVE ParseItems(_, _)
ParseItems(items, r) ==
    IF items = <<>> THEN r
    ELSE LET it == Head(items)
         IN  ParseItems(Tail(items),
                        IF it.quoted /\ it.v /= ""
                        THEN [r EXCEPT ![it.k] = it.v] ELSE r)

AuthKeys == {"realm", "nonce", "opaque", "qop"}

parseWWWAuth(header) ==
    ParseItems(header, [k \in AuthKeys |-> Absent])

Item(k, v) == [k |-> k, v |-> v, quoted |-> TRUE]

Bare(k, v) == [k |-> k, v |-> v, quoted |-> FALSE]

\* The WWW-Authenticate headers tried; <<>> is a 401 without the header
\* (headers.get(...) || '').
Challenges ==
    { <<>>,
      <<Item("realm", "AiSEG"), Item("nonce", "n1"), Item("qop", "auth")>>,
      <<Item("realm", "home"), Item("nonce", "n2")>>,
      <<Item("nonce", "n1"), Bare("qop", "auth"), Item("opaque", "o1")>>,
      <<Item("realm", "AiSEG"), Item("nonce", "n1"), Item("qop", "auth-int")>>,
      <<Item("realm", "AiSEG"), Item("nonce", ""), Item("qop", "auth,auth-int")>> }

\* crypto.randomBytes(8).toString('hex'): the values tried.
CNonces == {"c1", "c2"}

\* The statuses the appliance answers with.
Statuses == {200, 401, 404, 500}

\* Mutant of Authorization: the digest is always computed without qop.
AuthorizationNoQop(challenge, method, path, cnonce) ==
    LET c        == parseWWWAuth(challenge)
        realm    == IF c["realm"] = Absent THEN "AiSEG" ELSE c["realm"]
        nonce    == IF c["nonce"] = Absent THEN "" ELSE c["nonce"]
        nc       == "00000001"
        ha1      == md5(<<USER, realm, PASS>>)
        ha2      == md5(<<method, path>>)
        hasQop   == c["qop"] /= Absent
        hasOpq   == c["opaque"] /= Absent
    IN  [username |-> USER, realm |-> realm, nonce |-> nonce, uri |-> path,
         response |-> md5(<<ha1, nonce, ha2>>),
         qop      |-> IF hasQop THEN "auth" ELSE Absent,
         nc       |-> IF hasQop THEN nc ELSE Absent,
         cnonce   |-> IF hasQop THEN cnonce ELSE Absent,
         opaque   |-> IF hasOpq THEN c["opaque"] ELSE Absent]

\* The Authorization header of the retried request, as the record of its
\* fields, and the digest it carries.
Authorization(challenge, method, path, cnonce) ==
    LET c        == parseWWWAuth(challenge)
        realm    == IF c["realm"] = Absent THEN "AiSEG" ELSE c["realm"]
        nonce    == IF c["nonce"] = Absent THEN "" ELSE c["nonce"]
        nc       == "00000001"
        ha1      == md5(<<USER, realm, PASS>>)
        ha2      == md5(<<method, path>>)
        response == IF c["qop"] = "auth"
                    THEN md5(<<ha1, nonce, nc, cnonce, "auth", ha2>>)
                    ELSE md5(<<ha1, nonce, ha2>>)
        hasQop   == c["qop"] /= Absent
        hasOpq   == c["opaque"] /= Absent
    IN  [username |-> USER, realm |-> realm, nonce |-> nonce, uri |-> path,
         response |-> response,
         qop      |-> IF hasQop THEN "auth" ELSE Absent,
         nc       |-> IF hasQop THEN nc ELSE Absent,
         cnonce   |-> IF hasQop THEN cnonce ELSE Absent,
         opaque   |-> IF hasOpq THEN c["opaque"] ELSE Absent]

NoAuth == [username |-> Absent]

\* The first request of a call: digestFetch sends method and body as given
\* (Content-Type only with a body), devicePost always a POST of the
\* form-encoded params with X-Requested-With.
FirstRequest(fn, path, method, body) ==
    IF fn = "devicePost"
    THEN [url |-> <<BASE, path>>, method |-> "POST",
          contentType |-> TRUE, xRequestedWith |-> TRUE,
          body |-> <<"data=", body>>, authorization |-> NoAuth]
    ELSE [url |-> <<BASE, path>>, method |-> method,
          contentType |-> body /= Absent, xRequestedWith |-> FALSE,
          body |-> body, authorization |-> NoAuth]

\* The calls tried: digestFetch(path, method, body) and devicePost(path,
\* params).
DigestCalls ==
    { [fn |-> "digestFetch", path |-> "/page/graph/51111", method |-> "GET",
       body |-> Absent],
      [fn |-> "digestFetch", path |-> "/page/graph/584?data=e30",
       method |-> "GET", body |-> Absent],
      [fn |-> "digestFetch", path |-> "/data/electricflow/111/update",
       method |-> "POST", body |-> ""],
      [fn |-> "devicePost", path |-> "/action/devices/device/321/change",
       method |-> "POST", body |-> "params"] }

\* The call, up to its first await: the request without credentials is
\* sent.
DigCall(call) ==
    /\ dig.pc = "idle"
    /\ dig' = [dig EXCEPT
                 !.pc = "await1", !.call = call,
                 !.sent = <<FirstRequest(call.fn, call.path, call.method,
                                         call.body)>>]
    /\ UNCHANGED digEnv

\* The first fetch rejects (network error): the call throws.
DigFirstFails ==
    /\ dig.pc = "await1"
    /\ dig' = [dig EXCEPT !.pc = "threw"]
    /\ digEnv' = [digEnv EXCEPT !.neterr = TRUE]

\* The first response r1 arrives: returned as it is unless its status is
\* 401, and then the request is sent again with the Authorization header.
DigFirst(status, challenge, cnonce) ==
    /\ dig.pc = "await1"
    /\ LET r1 == [n |-> 1, status |-> status,
                  wwwAuthenticate |-> IF status = 401 THEN challenge ELSE <<>>]
           method == dig.sent[1].method
       IN  /\ digEnv' = [digEnv EXCEPT !.r1 = r1]
           /\ IF r1.status /= 401
              THEN dig' = [dig EXCEPT !.pc = "returned", !.ret = r1]
              ELSE dig' = [dig EXCEPT
                             !.pc = "await2",
                             !.sent = Append(@, [dig.sent[1] EXCEPT
                                 !.authorization =
                                     Authorization(r1.wwwAuthenticate, method,
                                                   dig.call.path, cnonce)])]

\* The second fetch rejects (network error): the call throws.
DigSecondFails ==
    /\ dig.pc = "await2"
    /\ dig' = [dig EXCEPT !.pc = "threw"]
    /\ digEnv' = [digEnv EXCEPT !.neterr = TRUE]

\* Mutant of DigSecond: a second 401 is raised as an exception.
DigSecondThrows(status) ==
    /\ dig.pc = "await2"
    /\ digEnv' = [digEnv EXCEPT !.r2 = [n |-> 2, status |-> status]]
    /\ IF status = 401
       THEN dig' = [dig EXCEPT !.pc = "threw"]
       ELSE dig' = [dig EXCEPT !.pc = "returned",
                               !.ret = [n |-> 2, status |-> status]]

\* The second response arrives and is the call's value (return fetch(...)).
DigSecond(status) ==
    /\ dig.pc = "await2"
    /\ digEnv' = [digEnv EXCEPT !.r2 = [n |-> 2, status |-> status]]
    /\ dig' = [dig EXCEPT !.pc = "returned",
                          !.ret = [n |-> 2, status |-> status]]

\* ------------------------------------------------------------------------
\* Appliance client reads, as the server sees them (aiseg2.js): each read's
\* result computed from what the appliance answered
\* ------------------------------------------------------------------------

\* getRealtime's result for a parsed reply body: the remapped fields are
\* functions of the body, which the result keeps as `raw`.
getRealtime(body) == [raw |-> body]

\* The reply bodies of /data/electricflow/111/update tried.
RealtimeBodies == {"flow1", "flow2"}

TotalsKeys == {"solar", "consumption", "purchase", "sold"}

\* getTotals: four scrapes, each one's failure caught and turned into null.
getTotals(scrapes) ==
    [k \in TotalsKeys |->
        IF scrapes[k].err THEN Null ELSE parseKwh(scrapes[k].page)]

\* What the four graph pages answer, in the runs tried: all four readings;
\* the purchase page malformed; every request failing.
TotalsScrapes ==
    { [k \in TotalsKeys |-> [err |-> FALSE, page |-> SpanPage(<<"1", ".", "5">>)]],
      [k \in TotalsKeys |->
          IF k = "purchase" THEN [err |-> FALSE, page |-> NoSpanPage]
          ELSE [err |-> FALSE, page |-> SpanPage(<<"2", ".", "5">>)]],
      [k \in TotalsKeys |-> [err |-> TRUE, page |-> NoSpanPage]] }

\* A promise of the Promise.all that has not settled.
Pending == [t |-> "pending"]

\* What one graph page request can come to: the fetch rejects; the page has
\* no val_kwh span (an error page, changed markup); the span holds a
\* character outside the pattern's class; the span holds a reading, one
\* with a thousands separator, or a lone dot.
ScrapeOutcomes ==
    { [err |-> TRUE, page |-> NoSpanPage],
      [err |-> FALSE, page |-> NoSpanPage],
      [err |-> FALSE, page |-> SpanPage(<<"1", "x">>)],
      [err |-> FALSE, page |-> SpanPage(<<"1", ".", "5">>)],
      [err |-> FALSE, page |-> SpanPage(<<"1", ",", "2", "3", "4">>)],
      [err |-> FALSE, page |-> SpanPage(<<".">>)] }

\* getTotals is not running.
TotIdle ==
    /\ tot = [pc |-> "idle", results |-> [k \in TotalsKeys |-> Pending],
              ret |-> Null]
    /\ totEnv = [scrapes |-> [k \in TotalsKeys |-> [err |-> TRUE, page |-> NoSpanPage]]]

\* getTotals() is called: the four requests are issued and the call
\* suspends at `await Promise.all(...)`.
TotCall ==
    /\ tot.pc = "idle"
    /\ tot' = [tot EXCEPT !.pc = "waiting"]
    /\ UNCHANGED totEnv

\* Mutant of TotSettle: the chain has no .catch, so that a rejected request
\* rejects the Promise.all and with it the call.
TotSettleUncaught(k) ==
    /\ tot.pc = "waiting"
    /\ tot.results[k] = Pending
    /\ IF totEnv.scrapes[k].err
       THEN tot' = [tot EXCEPT !.pc = "threw"]
       ELSE tot' = [tot EXCEPT !.results[k] = parseKwh(totEnv.scrapes[k].page)]
    /\ UNCHANGED totEnv

\* The chain of page k settles: digestFetch(...).then(r => r.text())
\* .then(parseKwh).catch(() => null)
TotSettle(k) ==
    /\ tot.pc = "waiting"
    /\ tot.results[k] = Pending
    /\ tot' = [tot EXCEPT !.results[k] =
                   IF totEnv.scrapes[k].err THEN Null
                   ELSE parseKwh(totEnv.scrapes[k].page)]
    /\ UNCHANGED totEnv

\* All four have settled: the await resumes and getTotals returns
\* Object.fromEntries(entries.map(([key], i) => [key, results[i]])).
TotReturn ==
    /\ tot.pc = "waiting"
    /\ \A k \in TotalsKeys : tot.results[k] /= Pending
    /\ tot' = [tot EXCEPT !.pc = "done", !.ret = [k \in TotalsKeys |-> tot.results[k]]]
    /\ UNCHANGED totEnv

AC_DEVICES ==
    << [nodeId |-> "1073741827", eoj |-> "0x013001", name |-> "AC-A"],
       [nodeId |-> "1073741828", eoj |-> "0x013001", name |-> "AC-B"],
       [nodeId |-> "1073741829", eoj |-> "0x013001", name |-> "AC-C"] >>

FH_DEVICES ==
    << [nodeId |-> "1073741826", eoj |-> "0x0f7001", name |-> "FH-A"],
       [nodeId |-> "1073741826", eoj |-> "0x0f7002", name |-> "FH-B"] >>

\* One entry of acs / fhs in getDevices' result, from the appliance's link
\* for that unit; getDevices itself sets no nickname.
DeviceEntry(d, state) ==
    [nodeId |-> d.nodeId, eoj |-> d.eoj, name |-> d.name, state |-> state,
     running |-> state = "0x30", nickname |-> Absent]

\* What the three group listings answer, in the runs tried, as the acs and
\* fhs of getDevices' result: every unit off; the first AC running.
DeviceListings ==
    { [acs |-> [i \in 1..3 |-> DeviceEntry(AC_DEVICES[i], "0x31")],
       fhs |-> [i \in 1..2 |-> DeviceEntry(FH_DEVICES[i], "0x31")]],
      [acs |-> [i \in 1..3 |->
                  DeviceEntry(AC_DEVICES[i], IF i = 1 THEN "0x30" ELSE "0x31")],
       fhs |-> [i \in 1..2 |-> DeviceEntry(FH_DEVICES[i], "0x31")]] }

\* getDevices' result: the token it ran with and the merged listings.
getDevices(tok, listing) ==
    [token |-> tok, acs |-> listing.acs, fhs |-> listing.fhs]

\* The circuit lists getCircuits returns, in the runs tried; the empty one
\* is what it returns for a page without the arrayCircuitNameList script
\* (an error page among them).
CircuitLists ==
    { <<>>,
      <<[id |-> 1, name |-> "c1"]>>,
      <<[id |-> 2, name |-> "c2"], [id |-> 3, name |-> "c3"]>> }

\* getAllCircuitKwh(circuits) under the appliance's behaviour p (its
\* batching is the subject of SpecKwh).
getAllCircuitKwh(circuits, p) ==
    [i \in 1..Len(circuits) |-> getCircuitKwh(UpstreamKwh(p, circuits[i].id))]

\* Mutant of TokenFresh: the token goes stale one millisecond early.
TokenFreshShort == token.token /= Absent /\ now - token.at < 3599999

\* _token && Date.now() - _tokenAt < 3_600_000
TokenFresh == token.token /= Absent /\ now - token.at < 3600000

\* getToken after its page arrived: m ? m[1] : '32140'
ParsedToken(pageToken) == IF pageToken = Absent THEN "32140" ELSE pageToken

\* The tokens the device page shows, in the runs tried; Absent is a page
\* the pattern does not match.
PageTokens == {"777", Absent}

\* ------------------------------------------------------------------------
\* server.js: the cache and the helpers that fill it
\* ------------------------------------------------------------------------

TTL(cat) ==
    CASE cat = "realtime" -> 5000
      [] cat = "totals" -> 60000
      [] cat = "circuitKwh" -> 300000
      [] cat = "devices" -> 10000

Payload(c, cat) ==
    CASE cat = "realtime" -> c.realtime
      [] cat = "totals" -> c.totals
      [] cat = "circuitKwh" -> c.circuitKwh
      [] cat = "devices" -> c.devices

FetchedAt(c, cat) ==
    CASE cat = "realtime" -> c.realtimeAt
      [] cat = "totals" -> c.totalsAt
      [] cat = "circuitKwh" -> c.circuitKwhAt
      [] cat = "devices" -> c.devicesAt

\* Mutant of Stored: the payload is written, the timestamp is not.
StoredPayloadOnly(c, cat, data, t) ==
    CASE cat = "realtime" -> [c EXCEPT !.realtime = data]
      [] cat = "totals" -> [c EXCEPT !.totals = data]
      [] cat = "circuitKwh" -> [c EXCEPT !.circuitKwh = data]
      [] cat = "devices" -> [c EXCEPT !.devices = data]

\* cache.X = data; cache.XAt = Date.now()
Stored(c, cat, data, t) ==
    CASE cat = "realtime" -> [c EXCEPT !.realtime = data, !.realtimeAt = t]
      [] cat = "totals" -> [c EXCEPT !.totals = data, !.totalsAt = t]
      [] cat = "circuitKwh" -> [c EXCEPT !.circuitKwh = data, !.circuitKwhAt = t]
      [] cat = "devices" -> [c EXCEPT !.devices = data, !.devicesAt = t]

\* Mutant of Expired: the entry counts as expired when its age equals the
\* TTL.
ExpiredAtTTL(cat) == now - FetchedAt(cache, cat) >= TTL(cat)

\* Date.now() - cache.XAt > TTL.X
Expired(cat) == now - FetchedAt(cache, cat) > TTL(cat)

NickKey(d) == <<d.nodeId, d.eoj>>

\* nicknames[key] is truthy
HasNickname(nicks, key) == key \in DOMAIN nicks /\ nicks[key] /= ""

\* applyName: the entry with the mapping's nickname, or the entry as it is.
applyName(nicks, d) ==
    IF HasNickname(nicks, NickKey(d))
    THEN [d EXCEPT !.nickname = nicks[NickKey(d)]]
    ELSE d

applyNicknames(nicks, data) ==
    IF data = Null THEN data
    ELSE [data EXCEPT
            !.acs = [i \in 1..Len(data.acs) |-> applyName(nicks, data.acs[i])],
            !.fhs = [i \in 1..Len(data.fhs) |-> applyName(nicks, data.fhs[i])]]

\* cache.circuits.map((c, i) => ({ ...c, kwh: kwh[i] }))
WithKwh(circuits, kwh) ==
    Array([i \in 1..Len(circuits.items) |->
             [id |-> circuits.items[i].id, name |-> circuits.items[i].name,
              kwh |-> IF i <= Len(kwh) THEN kwh[i] ELSE [t |-> "undefined"]]])

\* ------------------------------------------------------------------------
\* server.js: async activations (fetchRealtime, fetchTotals, fetchDevices,
\* fetchCircuits and what awaits them)
\* ------------------------------------------------------------------------

\* How often the clock is advanced in a run.
MaxTicks == 2

\* An activation suspended at an await.  kind is what awaits the fetch
\* ("rest": a GET handler, "startup": the pre-warm, "poll": an interval
\* callback, "timer": the refresh after a control request); stage is the
\* upstream call awaited; arg is the value the suspended code holds (the
\* token of getDevices, the list given to getAllCircuitKwh); calls counts
\* the calls of the category's appliance read made for it.  stale,
\* listAtIssue and issued record whether the entry was older than its TTL,
\* whether the circuit list was loaded, and the time, when it began
\* (history).
Op(kind, cat, stage, arg, calls) ==
    [kind |-> kind, cat |-> cat, stage |-> stage, arg |-> arg,
     calls |-> calls, stale |-> now - FetchedAt(cache, cat) > TTL(cat),
     listAtIssue |-> cache.circuits /= Null, issued |-> IssueTime]

HasFree == BagCardinality(ops) < MaxOps

\* The value an activation holds across its await.
TokenArg(tok) == [t |-> "token", v |-> tok]

\* Mutant of FetchBegin: fetchCircuits scrapes the list anew whenever the
\* kWh entry has expired.
FetchBeginRelist(cat) ==
    CASE cat = "devices" ->
            IF TokenFresh
            THEN [sync |-> FALSE, stage |-> "fetch", arg |-> TokenArg(token.token),
                  calls |-> 1]
            ELSE [sync |-> FALSE, stage |-> "token", arg |-> Null, calls |-> 1]
      [] cat = "circuitKwh" ->
            IF cache.circuits = Null \/ Expired("circuitKwh")
            THEN [sync |-> FALSE, stage |-> "list", arg |-> Null, calls |-> 0]
            ELSE [sync |-> TRUE, stage |-> "none", arg |-> Null, calls |-> 0]
      [] OTHER -> [sync |-> FALSE, stage |-> "fetch", arg |-> Null, calls |-> 1]

\* fetchX() up to its first await on the appliance: the stage it suspends
\* at, or sync when it returns without one (fetchCircuits with the list
\* loaded and the kWh entry within its TTL).
FetchBegin(cat) ==
    CASE cat = "devices" ->
            IF TokenFresh
            THEN [sync |-> FALSE, stage |-> "fetch", arg |-> TokenArg(token.token),
                  calls |-> 1]
            ELSE [sync |-> FALSE, stage |-> "token", arg |-> Null, calls |-> 1]
      [] cat = "circuitKwh" ->
            IF cache.circuits = Null
            THEN [sync |-> FALSE, stage |-> "list", arg |-> Null, calls |-> 0]
            ELSE IF Expired("circuitKwh")
            THEN IF cache.circuits.items = <<>>
                 THEN [sync |-> TRUE, stage |-> "none", arg |-> Null, calls |-> 1]
                 ELSE [sync |-> FALSE, stage |-> "kwh", arg |-> cache.circuits,
                       calls |-> 1]
            ELSE [sync |-> TRUE, stage |-> "none", arg |-> Null, calls |-> 0]
      [] OTHER -> [sync |-> FALSE, stage |-> "fetch", arg |-> Null, calls |-> 1]

\* The cache after a fetchX() that returns without an await on the
\* appliance: as it was, but for fetchCircuits with an empty list loaded and
\* the kWh entry expired, where getAllCircuitKwh([]) sends no request and
\* the (empty) kWh payload is stored at once.
FetchSync(cat) ==
    IF cat = "circuitKwh" /\ cache.circuits /= Null /\ Expired("circuitKwh")
    THEN [Stored(cache, cat, Array(<<>>), now) EXCEPT !.requested[cat] = IssueTime]
    ELSE cache

\* What the appliance can answer to a control request: no answer (fetch
\* rejects), its JSON acknowledgment, a successful response whose body is
\* not JSON, an HTTP error.
ControlReplies ==
    { [neterr |-> TRUE, status |-> 0, json |-> FALSE],
      [neterr |-> FALSE, status |-> 200, json |-> TRUE],
      [neterr |-> FALSE, status |-> 200, json |-> FALSE],
      [neterr |-> FALSE, status |-> 500, json |-> TRUE] }

\* What the awaited upstream call can come back with.
Outcomes(op) ==
    CASE op.cat = "realtime" ->
            {[ok |-> FALSE]} \cup {[ok |-> TRUE, body |-> b] : b \in RealtimeBodies}
      [] op.cat = "totals" ->
            {[ok |-> TRUE, scrapes |-> sc] : sc \in TotalsScrapes}
      [] op.cat = "devices" /\ op.stage = "token" ->
            {[ok |-> FALSE]} \cup {[ok |-> TRUE, pageToken |-> t] : t \in PageTokens}
      [] op.cat = "devices" /\ op.stage = "fetch" ->
            {[ok |-> FALSE]} \cup {[ok |-> TRUE, listing |-> l] : l \in DeviceListings}
      [] op.cat = "circuitKwh" /\ op.stage = "list" ->
            {[ok |-> FALSE]} \cup {[ok |-> TRUE, list |-> l] : l \in CircuitLists}
      [] op.cat = "circuitKwh" /\ op.stage = "kwh" ->
            {[ok |-> TRUE, pattern |-> p] : p \in {1, 3}}
      [] op.cat = "control" /\ op.stage = "token" ->
            {[ok |-> FALSE]} \cup {[ok |-> TRUE, pageToken |-> t] : t \in PageTokens}
      [] op.cat = "control" /\ op.stage = "control" -> ControlReplies

Failed(op) ==
    [state |-> "fail", op |-> op, cache |-> cache, token |-> token, data |-> Null]

Fetched(op, data) ==
    [state |-> "ok", op |-> op,
     cache |-> [Stored(cache, op.cat, data, now) EXCEPT
                   !.requested[op.cat] = op.issued],
     token |-> token, data |-> data]

\* fetchX from the await that just resolved with outcome o to its next
\* await ("more"), its return ("ok") or its throw ("fail"): the activation,
\* the cache and the token afterwards, and the value returned.
FetchStep(op, o) ==
    CASE op.cat = "realtime" ->
            IF o.ok THEN Fetched(op, getRealtime(o.body)) ELSE Failed(op)
      [] op.cat = "totals" -> Fetched(op, getTotals(o.scrapes))
      [] op.cat = "devices" /\ op.stage = "token" ->
            IF o.ok
            THEN [state |-> "more",
                  op |-> [op EXCEPT !.stage = "fetch",
                                    !.arg = TokenArg(ParsedToken(o.pageToken))],
                  cache |-> cache,
                  token |-> [token |-> ParsedToken(o.pageToken), at |-> now],
                  data |-> Null]
            ELSE Failed(op)
      [] op.cat = "devices" /\ op.stage = "fetch" ->
            IF o.ok
            THEN Fetched(op, applyNicknames(nicknames, getDevices(op.arg.v, o.listing)))
            ELSE Failed(op)
      [] op.cat = "circuitKwh" /\ op.stage = "list" ->
            IF o.ok
            THEN IF Expired("circuitKwh") /\ o.list = <<>>
                 THEN [state |-> "ok", op |-> [op EXCEPT !.calls = @ + 1],
                       cache |-> [Stored([cache EXCEPT !.circuits = Array(o.list)],
                                         op.cat, Array(<<>>), now) EXCEPT
                                     !.requested[op.cat] = op.issued],
                       token |-> token, data |-> Array(<<>>)]
                 ELSE IF Expired("circuitKwh")
                 THEN [state |-> "more",
                       op |-> [op EXCEPT !.stage = "kwh", !.arg = Array(o.list),
                                         !.calls = @ + 1],
                       cache |-> [cache EXCEPT !.circuits = Array(o.list)],
                       token |-> token, data |-> Null]
                 ELSE [state |-> "ok", op |-> op,
                       cache |-> [cache EXCEPT !.circuits = Array(o.list)],
                       token |-> token, data |-> cache.circuitKwh]
            ELSE Failed(op)
      [] op.cat = "circuitKwh" /\ op.stage = "kwh" ->
            Fetched(op, WithKwh(cache.circuits, getAllCircuitKwh(op.arg.items, o.pattern)))

\* JSON.stringify({ type, data, ts })
Frame(type, data, ts) == [type |-> type, data |-> data, ts |-> ts]

\* JSON.stringify({ type: 'error', message: e.message })
ErrorFrame(message) == [type |-> "error", message |-> message]

\* Mutant of Receivers: the loop over wss.clients stops after the first
\* send.
ReceiversFirstOnly ==
    LET open == {c \in ClientIds : clients[c] = "open"}
    IN  IF open = {} THEN {} ELSE {CHOOSE c \in open : \A d \in open : c <= d}

\* broadcast(type, data): the connections whose readyState is OPEN
Receivers == {c \in ClientIds : clients[c] = "open"}


\* res.json(body) / res.status(502).json(...) of a GET handler, with the
\* activation's history.
Response(route, status, body, op) ==
    [kind |-> "response", route |-> route, status |-> status, body |-> body,
     calls |-> op.calls, stale |-> op.stale, listAtIssue |-> op.listAtIssue]

\* Mutant of RestRead: a read that finds a fetch of its category in flight
\* starts none of its own.
RestReadShared(cat) ==
    /\ cat \in workload.routes
    /\ HasFree
    /\ LET b == FetchBegin(cat)
           inFlight == \E op \in BagToSet(ops) : op.cat = cat
           fetch == ~inFlight /\ (IF cat = "circuitKwh" THEN ~b.sync ELSE Expired(cat))
       IN  IF fetch
           THEN /\ ops' = ops (+) SetToBag({Op("rest", cat, b.stage, b.arg, b.calls)})
                /\ emitted' = NoOut
                /\ UNCHANGED cache
           ELSE /\ emitted' = Response(cat, 200, Payload(FetchSync(cat), cat),
                                       Op("rest", cat, "none", Null,
                                          IF cat = "circuitKwh" THEN b.calls ELSE 0))
                /\ cache' = FetchSync(cat)
                /\ UNCHANGED ops
    /\ UNCHANGED <<workload, now, ticks, nicknames, nicknamesFile, token, wsVars,
                   timeouts>>

\* GET /api/realtime, /api/totals, /api/devices, /api/circuits
RestRead(cat) ==
    /\ cat \in workload.routes
    /\ HasFree
    /\ LET b == FetchBegin(cat)
           fetch == IF cat = "circuitKwh" THEN ~b.sync ELSE Expired(cat)
       IN  IF fetch
           THEN /\ ops' = ops (+) SetToBag({Op("rest", cat, b.stage, b.arg, b.calls)})
                /\ emitted' = NoOut
                /\ UNCHANGED cache
           ELSE /\ emitted' = Response(cat, 200, Payload(FetchSync(cat), cat),
                                       Op("rest", cat, "none", Null,
                                          IF cat = "circuitKwh" THEN b.calls ELSE 0))
                /\ cache' = FetchSync(cat)
                /\ UNCHANGED ops
    /\ UNCHANGED <<workload, now, ticks, nicknames, nicknamesFile, token, wsVars,
                   timeouts>>

\* Mutant of pollCatch: the poll has no try/catch, the rejection is
\* unhandled and the process ends, and with it every connection and timer.
pollRethrow(cat) ==
    [emitted |-> [kind |-> "logged", cat |-> cat],
     clients |-> [c \in ClientIds |-> "none"], handle |-> Null,
     intervals |-> [c \in DOMAIN intervals |-> 0]]

\* pollRealtime / pollTotals / pollDevices when the awaited fetch throws:
\* catch (e) { console.error('[poll] ...', e.message) }, and nothing else.
pollCatch(cat) ==
    [emitted |-> [kind |-> "logged", cat |-> cat],
     clients |-> clients, handle |-> pollHandle, intervals |-> intervals]

\* An awaited upstream call comes back and the activation runs on: to its
\* next await, or to the end of fetchX and of what awaited it.
Resolve(op, o) ==
    /\ BagIn(op, ops)
    /\ op.kind /= "control"
    /\ o \in Outcomes(op)
    /\ LET r == FetchStep(op, o)
       IN  /\ cache' = r.cache
           /\ token' = r.token
           /\ ops' = IF r.state = "more"
                     THEN (ops (-) SetToBag({op})) (+) SetToBag({r.op})
                     ELSE ops (-) SetToBag({op})
           /\ emitted' =
                 CASE r.state = "more" -> NoOut
                   [] op.kind = "rest" /\ r.state = "ok" ->
                         Response(op.cat, 200, Payload(r.cache, op.cat), r.op)
                   [] op.kind = "rest" /\ r.state = "fail" ->
                         Response(op.cat, 502, [error |-> "message"], op)
                   [] op.kind \in {"poll", "timer"} /\ r.state = "ok" ->
                         [kind |-> "broadcast", to |-> Receivers,
                          frame |-> Frame(op.cat, r.data, now)]
                   [] op.kind = "poll" /\ r.state = "fail" ->
                         pollCatch(op.cat).emitted
                   [] op.kind = "ws" /\ r.state = "ok" ->
                         [kind |-> "reply", to |-> op.client,
                          frame |-> Frame("circuits", r.data, now)]
                   [] op.kind = "ws" /\ r.state = "fail" ->
                         [kind |-> "reply", to |-> op.client,
                          frame |-> ErrorFrame("message")]
                   [] OTHER -> NoOut
           /\ IF op.kind = "poll" /\ r.state = "fail"
              THEN /\ clients' = pollCatch(op.cat).clients
                   /\ pollHandle' = pollCatch(op.cat).handle
                   /\ totalsHandle' = pollCatch(op.cat).handle
                   /\ devicesHandle' = pollCatch(op.cat).handle
                   /\ intervals' = pollCatch(op.cat).intervals
              ELSE UNCHANGED <<clients, pollHandle, totalsHandle, devicesHandle,
                               intervals>>
    /\ UNCHANGED <<workload, now, ticks, nicknames, nicknamesFile, starts, timeouts>>

\* Time passes.
Tick(d) ==
    /\ ticks < MaxTicks
    /\ ticks' = ticks + 1
    /\ now' = now + d
    /\ emitted' = NoOut
    /\ UNCHANGED <<workload, cache, nicknames, nicknamesFile, token, ops, wsVars, timeouts>>

\* ------------------------------------------------------------------------
\* server.js: the push channel
\* ------------------------------------------------------------------------

\* How often polling is started in a run.
MaxStarts == 2

\* What setInterval returns.
Timer == [t |-> "timer"]

Polled == {"realtime", "totals", "devices"}

\* The frame type of a category.
FrameType(cat) == IF cat = "circuitKwh" THEN "circuits" ELSE cat

\* The connection handler's replay: in this order, one frame for each
\* category whose cached payload is truthy.
SnapshotOrder == <<"realtime", "totals", "circuitKwh", "devices">>

\* Mutant of Snapshot: the circuits frame is left out.
SnapshotWithoutCircuits ==
    LET cats == SelectSeq(SnapshotOrder,
                          LAMBDA cat : cat /= "circuitKwh" /\ Payload(cache, cat) /= Null)
    IN  [i \in 1..Len(cats) |->
            Frame(FrameType(cats[i]), Payload(cache, cats[i]), FetchedAt(cache, cats[i]))]

Snapshot ==
    LET cats == SelectSeq(SnapshotOrder, LAMBDA cat : Payload(cache, cat) /= Null)
    IN  [i \in 1..Len(cats) |->
            Frame(FrameType(cats[i]), Payload(cache, cats[i]), FetchedAt(cache, cats[i]))]

\* Mutant of startPolling: no check of pollHandle.
startPollingUnguarded ==
    [started |-> TRUE, handle |-> Timer,
     intervals |-> [c \in Polled |-> intervals[c] + 1]]

\* startPolling(): whether it started polling (and called pollRealtime),
\* the handles and the interval timers afterwards.
startPolling ==
    IF pollHandle /= Null
    THEN [started |-> FALSE, handle |-> pollHandle, intervals |-> intervals]
    ELSE [started |-> TRUE, handle |-> Timer,
          intervals |-> [c \in Polled |-> intervals[c] + 1]]

\* stopPolling(), called with the connections cs left in wss.clients
stopPolling(cs) ==
    IF (\E c \in ClientIds : cs[c] /= "none") \/ pollHandle = Null
    THEN [stopped |-> FALSE, handle |-> pollHandle, intervals |-> intervals]
    ELSE [stopped |-> TRUE, handle |-> Null,
          intervals |-> [c \in Polled |-> intervals[c] - 1]]

\* Mutant of Connect: the handler calls pollRealtime() itself, for every
\* connection.
ConnectPollsAlways(c) ==
    /\ clients[c] = "none"
    /\ HasFree
    /\ pollHandle /= Null \/ starts < MaxStarts
    /\ LET sp == startPolling
           sent == Snapshot
           b == FetchBegin("realtime")
       IN  /\ clients' = [clients EXCEPT ![c] = "open"]
           /\ pollHandle' = sp.handle
           /\ totalsHandle' = sp.handle
           /\ devicesHandle' = sp.handle
           /\ intervals' = sp.intervals
           /\ starts' = IF sp.started THEN starts + 1 ELSE starts
           /\ ops' = ops (+) SetToBag({Op("poll", "realtime", b.stage, b.arg, b.calls)})
           /\ emitted' = [kind |-> "connection", client |-> c, sent |-> sent,
                          started |-> sp.started]
    /\ UNCHANGED <<workload, now, ticks, cache, nicknames, nicknamesFile, token, timeouts>>

\* wss.on('connection'): the replay, then startPolling() and with it the
\* immediate pollRealtime().
Connect(c) ==
    /\ clients[c] = "none"
    /\ HasFree
    /\ pollHandle /= Null \/ starts < MaxStarts
    /\ LET sp == startPolling
           sent == Snapshot
           b == FetchBegin("realtime")
       IN  /\ clients' = [clients EXCEPT ![c] = "open"]
           /\ pollHandle' = sp.handle
           /\ totalsHandle' = sp.handle
           /\ devicesHandle' = sp.handle
           /\ intervals' = sp.intervals
           /\ starts' = IF sp.started THEN starts + 1 ELSE starts
           /\ ops' = IF sp.started
                     THEN ops (+) SetToBag({Op("poll", "realtime", b.stage, b.arg, b.calls)})
                     ELSE ops
           /\ emitted' = [kind |-> "connection", client |-> c, sent |-> sent,
                          started |-> sp.started]
    /\ UNCHANGED <<workload, now, ticks, cache, nicknames, nicknamesFile, token, timeouts>>

\* The connection begins to close: readyState CLOSING, still in wss.clients.
CloseBegin(c) ==
    /\ clients[c] = "open"
    /\ clients' = [clients EXCEPT ![c] = "closing"]
    /\ emitted' = NoOut
    /\ UNCHANGED <<workload, now, ticks, cache, nicknames, nicknamesFile, token, ops,
                   pollHandle, totalsHandle, devicesHandle, intervals, starts,
                   timeouts>>

\* The connection has closed: it leaves wss.clients, then ws.on('close')
\* runs.
Closed(c) ==
    /\ clients[c] /= "none"
    /\ LET cs == [clients EXCEPT ![c] = "none"]
           sp == stopPolling(cs)
       IN  /\ clients' = cs
           /\ pollHandle' = sp.handle
           /\ totalsHandle' = sp.handle
           /\ devicesHandle' = sp.handle
           /\ intervals' = sp.intervals
           /\ emitted' = [kind |-> "closed", client |-> c, stopped |-> sp.stopped]
    /\ UNCHANGED <<workload, now, ticks, cache, nicknames, nicknamesFile, token, ops,
                   starts, timeouts>>

\* Mutant of IntervalFires: the timer is a one-shot (setTimeout), gone once
\* it has fired.
IntervalFiresOnce(cat) ==
    /\ intervals[cat] > 0
    /\ cat \in workload.polls
    /\ HasFree
    /\ LET b == FetchBegin(cat)
       IN  ops' = ops (+) SetToBag({Op("poll", cat, b.stage, b.arg, b.calls)})
    /\ emitted' = NoOut
    /\ intervals' = [intervals EXCEPT ![cat] = 0]
    /\ UNCHANGED <<workload, now, ticks, cache, nicknames, nicknamesFile, token,
                   clients, pollHandle, totalsHandle, devicesHandle, starts,
                   timeouts>>

\* An interval timer fires: pollRealtime / pollTotals / pollDevices runs to
\* its await.
IntervalFires(cat) ==
    /\ intervals[cat] > 0
    /\ cat \in workload.polls
    /\ HasFree
    /\ LET b == FetchBegin(cat)
       IN  ops' = ops (+) SetToBag({Op("poll", cat, b.stage, b.arg, b.calls)})
    /\ emitted' = NoOut
    /\ UNCHANGED <<workload, now, ticks, cache, nicknames, nicknamesFile, token, wsVars,
                   timeouts>>

\* What a connection sends in the runs tried: the loadCircuits request, and
\* a frame with another action.
MessageActions == {"loadCircuits", "other"}

\* Mutant of Message: the action named in the message is not looked at.
MessageAnyAction(c, action) ==
    /\ clients[c] = "open"
    /\ HasFree
    /\ IF action \in MessageActions
       THEN LET b == FetchBegin("circuitKwh")
            IN  IF b.sync
                THEN /\ emitted' = [kind |-> "reply", to |-> c,
                                    frame |-> Frame("circuits",
                                                    FetchSync("circuitKwh").circuitKwh, now)]
                     /\ cache' = FetchSync("circuitKwh")
                     /\ UNCHANGED ops
                ELSE /\ ops' = ops (+) SetToBag({
                                   [kind |-> "ws", cat |-> "circuitKwh",
                                    stage |-> b.stage, arg |-> b.arg,
                                    calls |-> b.calls,
                                    stale |-> now - cache.circuitKwhAt > TTL("circuitKwh"),
                                    listAtIssue |-> cache.circuits /= Null,
                                    issued |-> IssueTime, client |-> c]})
                     /\ emitted' = NoOut
                     /\ UNCHANGED cache
       ELSE emitted' = NoOut /\ UNCHANGED <<ops, cache>>
    /\ UNCHANGED <<workload, now, ticks, nicknames, nicknamesFile, token, wsVars,
                   timeouts>>

\* ws.on('message'): for loadCircuits, fetchCircuits() up to its await, or,
\* when it returns without one, its .then and the circuits frame; any
\* other frame is ignored.
Message(c, action) ==
    /\ clients[c] = "open"
    /\ HasFree
    /\ IF action = "loadCircuits"
       THEN LET b == FetchBegin("circuitKwh")
            IN  IF b.sync
                THEN /\ emitted' = [kind |-> "reply", to |-> c,
                                    frame |-> Frame("circuits",
                                                    FetchSync("circuitKwh").circuitKwh, now)]
                     /\ cache' = FetchSync("circuitKwh")
                     /\ UNCHANGED ops
                ELSE /\ ops' = ops (+) SetToBag({
                                   [kind |-> "ws", cat |-> "circuitKwh",
                                    stage |-> b.stage, arg |-> b.arg,
                                    calls |-> b.calls,
                                    stale |-> now - cache.circuitKwhAt > TTL("circuitKwh"),
                                    listAtIssue |-> cache.circuits /= Null,
                                    issued |-> IssueTime, client |-> c]})
                     /\ emitted' = NoOut
                     /\ UNCHANGED cache
       ELSE emitted' = NoOut /\ UNCHANGED <<ops, cache>>
    /\ UNCHANGED <<workload, now, ticks, nicknames, nicknamesFile, token, wsVars,
                   timeouts>>

\* ------------------------------------------------------------------------
\* server.js: POST /api/devices/control
\* ------------------------------------------------------------------------

\* The control requests pending at once in a run.
MaxTimeouts == 1

\* The settle delay of the refresh after a control request.
SettleDelay == 2500

\* The actions of the requests tried: the eight the handler knows and one
\* it does not.
ControlActions ==
    {"toggleAC", "toggleFH", "toggleBath", "toggleGenerate", "setACMode",
     "setACTemp", "setACFan", "setFHLevel", "bogus"}

\* The appliance-client method the handler's if-chain calls for an action;
\* Absent when it reaches the final else.
ControlMethod(action) ==
    CASE action = "toggleAC" -> "controlAC"
      [] action = "toggleFH" -> "controlFH"
      [] action = "toggleBath" -> "controlBath"
      [] action = "toggleGenerate" -> "controlGenerate"
      [] action \in {"setACMode", "setACTemp", "setACFan"} -> "setACSettings"
      [] action = "setFHLevel" -> "setFHLevel"
      [] OTHER -> Absent

\* The handler's answer, with what was done on the request's behalf: the
\* control methods invoked, the upstream requests made, whether the
\* refresh was scheduled (history).
ControlResponse(status, body, action, invoked, calls, scheduled) ==
    [kind |-> "response", route |-> "control", status |-> status, body |-> body,
     action |-> action, invoked |-> invoked, calls |-> calls,
     scheduled |-> scheduled]

\* The handler from the token on: the if-chain, up to the control method's
\* await or to the 400.
ControlDispatch(action, tok, calls) ==
    IF ControlMethod(action) = Absent
    THEN [state |-> "done",
          emitted |-> ControlResponse(400, [error |-> "unknown action"], action,
                                      <<>>, calls, FALSE)]
    ELSE [state |-> "more",
          op |-> [kind |-> "control", cat |-> "control", stage |-> "control",
                  arg |-> TokenArg(tok), calls |-> calls + 1, action |-> action,
                  invoked |-> <<ControlMethod(action)>>]]

\* POST /api/devices/control arrives: the token from the devices cache, or
\* from getToken (its cached one, or the await of the device page).
ControlRequest(action) ==
    /\ action \in workload.actions
    /\ HasFree
    /\ Len(timeouts) < MaxTimeouts
    /\ IF cache.devices = Null /\ ~TokenFresh
       THEN /\ ops' = ops (+) SetToBag({[kind |-> "control", cat |-> "control",
                                         stage |-> "token", arg |-> Null,
                                         calls |-> 1, action |-> action,
                                         invoked |-> <<>>]})
            /\ emitted' = NoOut
       ELSE LET tok == IF cache.devices /= Null THEN cache.devices.token
                       ELSE token.token
                d == ControlDispatch(action, tok, 0)
            IN  IF d.state = "done"
                THEN emitted' = d.emitted /\ ops' = ops
                ELSE emitted' = NoOut /\ ops' = ops (+) SetToBag({d.op})
    /\ UNCHANGED <<workload, now, ticks, cache, nicknames, nicknamesFile, token, wsVars, timeouts>>

\* controlAC, controlFH, setACSettings, setFHLevel, controlBath and
\* controlGenerate from the await of their request on: `await devicePost`
\* (digestFetch in controlBath) throws when the fetch rejects, r.json()
\* throws when a successful body is not JSON; nothing in the method catches.
ControlCompletion(o) ==
    IF o.neterr \/ (o.status = 200 /\ ~o.json)
    THEN [threw |-> TRUE, value |-> Null]
    ELSE [threw |-> FALSE,
          value |-> IF o.status = 200 THEN [result |-> "ack"]
                    ELSE [result |-> "error"]]

\* The handler resumes from its await: of getToken (then the if-chain), or
\* of the control method (then the answer and the setTimeout, or the catch).
ControlResolve(op, o) ==
    /\ BagIn(op, ops)
    /\ op.kind = "control"
    /\ o \in Outcomes(op)
    /\ IF op.stage = "token"
       THEN IF o.ok
            THEN LET d == ControlDispatch(op.action, ParsedToken(o.pageToken), op.calls)
                 IN  /\ token' = [token |-> ParsedToken(o.pageToken), at |-> now]
                     /\ IF d.state = "done"
                        THEN emitted' = d.emitted /\ ops' = ops (-) SetToBag({op})
                        ELSE /\ emitted' = NoOut
                             /\ ops' = (ops (-) SetToBag({op})) (+) SetToBag({d.op})
                     /\ UNCHANGED timeouts
            ELSE /\ emitted' = ControlResponse(502, [error |-> "message"], op.action,
                                               op.invoked, op.calls, FALSE)
                 /\ ops' = ops (-) SetToBag({op})
                 /\ UNCHANGED <<token, timeouts>>
       ELSE /\ ops' = ops (-) SetToBag({op})
            /\ UNCHANGED token
            /\ IF ControlCompletion(o).threw
               THEN /\ emitted' = ControlResponse(502, [error |-> "message"],
                                                  op.action, op.invoked, op.calls,
                                                  FALSE)
                    /\ UNCHANGED timeouts
               ELSE /\ emitted' = ControlResponse(200, ControlCompletion(o).value,
                                                  op.action, op.invoked, op.calls,
                                                  TRUE)
                    /\ timeouts' = Append(timeouts, now + SettleDelay)
    /\ UNCHANGED <<workload, now, ticks, cache, nicknames, nicknamesFile, wsVars>>

\* The setTimeout callback runs: fetchDevices() to its await.
TimeoutFires ==
    /\ timeouts /= <<>>
    /\ Head(timeouts) <= now
    /\ HasFree
    /\ timeouts' = Tail(timeouts)
    /\ LET b == FetchBegin("devices")
       IN  ops' = ops (+) SetToBag({Op("timer", "devices", b.stage, b.arg, b.calls)})
    /\ emitted' = NoOut
    /\ UNCHANGED <<workload, now, ticks, cache, nicknames, nicknamesFile, token, wsVars>>

\* ------------------------------------------------------------------------
\* aiseg2.js: setFHLevel
\* ------------------------------------------------------------------------

\* The levels asked for range over -MaxLevel..MaxLevel.
MaxLevel == 60

\* String(n) of an integer.
RECURSIVE DecimalDigits(_)
DecimalDigits(n) ==
    IF n < 10 THEN <<DigitChar(n)>>
    ELSE DecimalDigits(n \div 10) \o <<DigitChar(n % 10)>>

NumberText(n) == IF n < 0 THEN <<"-">> \o DecimalDigits(-n) ELSE DecimalDigits(n)

\* Mutant of templevel: the level is capped at 9 and not raised to 1.
templevelNoFloor(level) == <<"0", "x", "3">> \o NumberText(Min(9, level))

\* const lvl = Math.max(1, Math.min(9, level)); templevel = '0x3' + lvl
templevel(level) == <<"0", "x", "3">> \o NumberText(Max(1, Min(9, level)))

\* setFHLevel(nodeId, eoj, currentState, level, token) up to its await:
\* the request to /action/devices/device/32b/change is sent.
setFHLevelCall ==
    /\ act.fn = "setFHLevel" /\ act.pc = "idle"
    /\ act' = [act EXCEPT
                 !.pc = "await",
                 !.sent = [path |-> "/action/devices/device/32b/change",
                           nodeId |-> act.args.nodeId, eoj |-> act.args.eoj,
                           type |-> "0x34", state |-> act.args.state,
                           templevel |-> templevel(act.args.level),
                           token |-> act.args.token]]

\* The appliance's answer arrives (or the fetch rejects): setFHLevel
\* returns r.ok ? r.json() : { result: 'error', status }, or throws.
setFHLevelSettle(o) ==
    /\ act.fn = "setFHLevel" /\ act.pc = "await"
    /\ act' = [act EXCEPT
                 !.pc = IF ControlCompletion(o).threw THEN "threw" ELSE "returned",
                 !.ret = ControlCompletion(o).value]

\* ------------------------------------------------------------------------
\* aiseg2.js: getDevices, step by step
\* ------------------------------------------------------------------------

\* A JS string held where null can be held too, as its characters.
Str(chars) == [t |-> "str", s |-> chars]

\* A JS object parsed from JSON: the fields it has, and no others.
EmptyObject == [t |-> "object"]

HexVal(c) ==
    CASE c \in Digits -> DigitVal(c)
      [] c \in {"a", "A"} -> 10 [] c \in {"b", "B"} -> 11
      [] c \in {"c", "C"} -> 12 [] c \in {"d", "D"} -> 13
      [] c \in {"e", "E"} -> 14 [] c \in {"f", "F"} -> 15

HexChars == Digits \cup {"a", "A", "b", "B", "c", "C", "d", "D", "e", "E", "f", "F"}

\* The value of the longest run of hex digits s starts with, after acc;
\* seen tells whether a digit has been read.
RECURSIVE HexRun(_, _, _)
HexRun(s, acc, seen) ==
    IF s /= <<>> /\ Head(s) \in HexChars
    THEN HexRun(Tail(s), 16 * acc + HexVal(Head(s)), TRUE)
    ELSE IF seen THEN Num(1000 * acc) ELSE NaN

\* parseInt(s, 16) of a text without blanks or sign: an optional 0x, then
\* the digits up to the first character that is not one.
parseInt16(s) ==
    IF Len(s) >= 2 /\ s[1] = "0" /\ s[2] \in {"x", "X"}
    THEN HexRun(SubSeq(s, 3, Len(s)), 0, FALSE)
    ELSE HexRun(s, 0, FALSE)

\* obj.field || null, for a field that holds a string when it is there.
OrNull(obj, field) ==
    IF field \in DOMAIN obj /\ obj[field] /= Null /\ obj[field].s /= <<>>
    THEN obj[field] ELSE Null

\* (det.modify_items || []).find(x => x.id_str === 's_img_ac')?.current?.value || null
fanVal(det) ==
    LET items == IF "modify_items" \in DOMAIN det THEN det.modify_items ELSE <<>>
        hits == {k \in 1..Len(items) : items[k].id_str = "s_img_ac"}
    IN
    IF hits = {} THEN Null
    ELSE LET fanItem == items[CHOOSE k \in hits : \A j \in hits : k <= j]
         IN  IF "current" \in DOMAIN fanItem
             THEN OrNull(fanItem.current, "value") ELSE Null

\* One entry of acs: the unit's link a of the AC listing and the detail
\* held for it (the fields kept here: identity, state, mode, tempC, fan).
acEntry(a, held) ==
    LET det == IF held = Null THEN EmptyObject ELSE held
        tempHex == OrNull(det, "temp")
    IN  [nodeId |-> a.nodeId, eoj |-> a.eoj, name |-> a.name, state |-> a.state,
         running |-> a.state = "0x30",
         mode |-> OrNull(det, "mode"),
         tempC |-> IF tempHex /= Null THEN parseInt16(tempHex.s) ELSE Null,
         fan |-> fanVal(det)]

fhEntry(f) ==
    [nodeId |-> f.nodeId, eoj |-> f.eoj, name |-> f.name, state |-> f.state,
     running |-> f.state = "0x30"]

\* The links of a listing, as the appliance gives them: one per unit asked
\* for, in the order asked.
Links(devices, running) ==
    [i \in 1..Len(devices) |->
       [nodeId |-> devices[i].nodeId, eoj |-> devices[i].eoj,
        name |-> devices[i].name,
        state |-> IF i \in running THEN "0x30" ELSE "0x31"]]

\* What a listing request can come back with: no answer, an HTTP error, a
\* successful body that is not JSON, the JSON listing.
ListReplies(devices) ==
    { [neterr |-> TRUE, status |-> 0, json |-> FALSE, links |-> <<>>],
      [neterr |-> FALSE, status |-> 500, json |-> TRUE, links |-> <<>>],
      [neterr |-> FALSE, status |-> 200, json |-> FALSE, links |-> <<>>],
      [neterr |-> FALSE, status |-> 200, json |-> TRUE, links |-> Links(devices, {1})] }

\* The detail pages of the three AC units differ in every field.
DetailModes == <<"1", "2", "3">>

DetailBodies(i) ==
    { [t |-> "object", mode |-> Str(<<"0", "x", "4", DetailModes[i]>>),
       temp |-> Str(<<"0", "x", "1", DetailModes[i]>>),
       modify_items |->
          << [id_str |-> "s_img_mode"],
             [id_str |-> "s_img_ac",
              current |-> [value |-> Str(<<"0", "x", "3", DetailModes[i]>>)]] >>],
      [t |-> "object", mode |-> Str(<<"0", "x", "4", DetailModes[i]>>),
       temp |-> Str(<<>>)] }

\* What a detail request for unit i can come back with.
DetailReplies(i) ==
    { [neterr |-> TRUE, status |-> 0, json |-> FALSE, body |-> Null],
      [neterr |-> FALSE, status |-> 500, json |-> TRUE, body |-> Null],
      [neterr |-> FALSE, status |-> 200, json |-> FALSE, body |-> Null] }
    \cup { [neterr |-> FALSE, status |-> 200, json |-> TRUE, body |-> b] :
             b \in DetailBodies(i) \cup {Null} }

\* Mutant of detailSettled: no catch, a rejected detail request stays a
\* rejection.
detailSettledUncaught(o) ==
    IF o.neterr \/ ~o.json THEN [t |-> "rejected"]
    ELSE IF o.status /= 200 THEN EmptyObject ELSE o.body

\* devicePost(...).then(r => r.ok ? r.json() : {}).catch(() => ({}))
detailSettled(o) ==
    IF o.neterr \/ o.status /= 200 \/ ~o.json THEN EmptyObject ELSE o.body

\* getDevices up to its Promise.all: getToken has answered (or thrown), the
\* three listing requests are sent.
getDevicesCall(tokenOk) ==
    /\ act.fn = "getDevices" /\ act.pc = "idle"
    /\ act' = [act EXCEPT !.pc = IF tokenOk THEN "lists" ELSE "threw",
                           !.sent = IF tokenOk THEN [token |-> "777"] ELSE Null]

\* The three listings have answered: a rejected request or a body that is
\* not JSON throws; otherwise the data are kept and one detail request per
\* AC unit is sent.
getDevicesLists(oa, of, og) ==
    /\ act.fn = "getDevices" /\ act.pc = "lists"
    /\ LET rs == {oa, of, og}
           bad == \E r \in rs : r.neterr \/ (r.status = 200 /\ ~r.json)
       IN  act' = [act EXCEPT
                     !.pc = IF bad THEN "threw" ELSE "details",
                     !.args = IF bad THEN Null
                              ELSE [acData |-> oa.links, fhData |-> of.links,
                                    grpOk |-> og.status = 200,
                                    acDetails |-> [i \in 1..Len(AC_DEVICES) |-> Pending]]]

\* The detail request of AC unit i settles.
getDevicesDetail(i, o) ==
    /\ act.fn = "getDevices" /\ act.pc = "details"
    /\ act.args.acDetails[i] = Pending
    /\ act' = [act EXCEPT !.args.acDetails[i] = detailSettled(o)]

\* All detail requests have settled: the result is put together.
getDevicesReturn ==
    /\ act.fn = "getDevices" /\ act.pc = "details"
    /\ \A i \in 1..Len(AC_DEVICES) : act.args.acDetails[i] /= Pending
    /\ IF \E i \in 1..Len(AC_DEVICES) : act.args.acDetails[i] = [t |-> "rejected"]
       THEN act' = [act EXCEPT !.pc = "threw"]
       ELSE act' = [act EXCEPT
                      !.pc = "returned",
                      !.ret = [token |-> act.sent.token,
                               acs |-> [i \in 1..Len(act.args.acData) |->
                                          acEntry(act.args.acData[i],
                                                  act.args.acDetails[i])],
                               fhs |-> [i \in 1..Len(act.args.fhData) |->
                                          fhEntry(act.args.fhData[i])],
                               enefarm |-> [bathRunning |-> FALSE,
                                            generateRunning |-> act.args.grpOk]]]

\* ------------------------------------------------------------------------
\* app.js: the page's WebSocket, its reconnects and the REST fallback
\* ------------------------------------------------------------------------
\* app.ws is 0 for null, else the socket the variable ws refers to. A socket
\* is "none" (not created, or closed and its close event dispatched),
\* "connecting", "open" or "closing" (readyState 0, 1, 2); readyState 3 is
\* seen by no handler but the error handler of the closing socket itself,
\* the browser setting it in the task that dispatches error and close.

\* startPoll: if (pollTimer) return; pollTimer = setInterval(...)
startPoll(a) == [a EXCEPT !.pollTimer = TRUE]

\* stopPoll: clearInterval(pollTimer); pollTimer = null
stopPoll(a) == [a EXCEPT !.pollTimer = FALSE]

\* clearTimeout(reconnectTimer): the timer the variable refers to, if it
\* is pending, is gone.
clearReconnect(a) == [a EXCEPT !.reconnectTimer = FALSE]

\* scheduleReconnect: reconnectTimer = setTimeout(connect, reconnectDelay),
\* a timer still pending under the old handle staying pending;
\* reconnectDelay = Math.min(reconnectDelay * 1.5, 10_000)
scheduleReconnect(a) ==
    [a EXCEPT !.strays = IF a.reconnectTimer THEN @ + 1 ELSE @,
              !.reconnectTimer = TRUE,
              !.reconnectDelay = IF 3 * @ >= 2 * DelayCap THEN DelayCap
                                 ELSE (3 * @) \div 2]

\* ws && ws.readyState <= WebSocket.OPEN
Attached(a) == a.ws /= 0 /\ a.sockets[a.ws] \in {"connecting", "open"}

NewSocket(a) == CHOOSE s \in SocketIds : a.sockets[s] = "none"

\* connect(): the handle's timer is cleared; unless ws is connecting or
\* open, a new socket is created and ws refers to it. (The constructor
\* throws on a malformed URL only; the URL is built from location.host.)
connect(a) ==
    LET b == clearReconnect(a)
    IN  IF Attached(b) THEN b
        ELSE [b EXCEPT !.ws = NewSocket(b), !.sockets[NewSocket(b)] = "connecting"]

\* connect() would create a socket and there is room for one.
CanConnect(a) == Attached(a) \/ \E s \in SocketIds : a.sockets[s] = "none"

\* The close listener: ws = null; startPoll(); scheduleReconnect()
onclose(a) == scheduleReconnect(startPoll([a EXCEPT !.ws = 0]))

\* The error listener: try { ws && ws.close() } catch {}, on whatever ws
\* refers to now; close() on a connecting or open socket makes it closing.
onerror(a) ==
    IF Attached(a) THEN [a EXCEPT !.sockets[a.ws] = "closing"] ELSE a

CanSchedule(a) == a.reconnectTimer => a.strays < MaxStrays

\* The open event of socket s.
SocketOpens(s) ==
    /\ app.sockets[s] = "connecting"
    /\ app' = stopPoll([app EXCEPT !.sockets[s] = "open",
                                  !.reconnectDelay = InitialDelay])

\* The closing handshake of socket s starts (the server's close frame has
\* arrived): readyState becomes CLOSING, no listener runs.
SocketClosing(s) ==
    /\ app.sockets[s] = "open"
    /\ app' = [app EXCEPT !.sockets[s] = "closing"]

\* Socket s is closed cleanly: its close event.
SocketCloses(s) ==
    /\ app.sockets[s] \in {"open", "closing"}
    /\ CanSchedule(app)
    /\ app' = onclose([app EXCEPT !.sockets[s] = "none"])

\* The connection of socket s fails: its error event, then its close
\* event.
SocketFails(s) ==
    /\ app.sockets[s] \in {"connecting", "open", "closing"}
    /\ CanSchedule(app)
    /\ app' = onclose(onerror([app EXCEPT !.sockets[s] = "none"]))

\* The timer reconnectTimer refers to fires: connect().
ReconnectFires ==
    /\ app.reconnectTimer
    /\ CanConnect(app)
    /\ app' = connect(app)

\* A timer whose handle was overwritten fires: connect().
StrayFires ==
    /\ app.strays > 0
    /\ CanConnect(app)
    /\ app' = connect([app EXCEPT !.strays = @ - 1])

\* visibilitychange, the page now visible.
Visible ==
    /\ LET a == [app EXCEPT !.reconnectDelay = InitialDelay]
       IN  IF a.ws = 0 \/ a.sockets[a.ws] = "closing"
           THEN CanConnect(a) /\ app' = connect(clearReconnect(a))
           ELSE app' = a

\* ------------------------------------------------------------------------
\* aiseg2.js: getRealtime, the numeric fields of its result
\* ------------------------------------------------------------------------

\* undefined, where null, numbers and strings are held too.
Undefined == [t |-> "undefined"]

\* d.field of a parsed JSON object.
Field(d, field) == IF field \in DOMAIN d THEN d[field] ELSE Undefined

\* parseFloat(v): of a string, its leading decimal number; of a number, the
\* number; of null and undefined ("null", "undefined"), NaN.
parseFloatOf(v) ==
    CASE v.t = "str" -> ParseFloat(v.s)
      [] v.t = "num" -> v
      [] OTHER -> NaN

\* x || 0, x a number or NaN
OrZero(x) == IF x = NaN \/ x = Num(0) THEN Num(0) ELSE x

\* v ?? 0
Coalesce(v) == IF v = Null \/ v = Undefined THEN Num(0) ELSE v

\* The four fields of the appliance's JSON the numeric fields are made of.
FlowFields == {"g_capacity", "u_capacity", "g_d_1_capacity", "g_d_2_capacity"}

\* What the appliance can put in such a field: null, a number, a decimal
\* string, the empty string, a dash.
FlowValues ==
    { Null, Num(1200), Str(<<"1", ".", "2">>), Str(<<>>), Str(<<"-">>) }

\* The answers tried: every field holding any of the values, or missing.
FlowBodies ==
    { [f \in present |-> vals[f]] :
         present \in SUBSET FlowFields, vals \in [FlowFields -> FlowValues] }

\* The numeric fields of getRealtime's result for the answer d.
realtimeNumbers(d) ==
    [gen_kw    |-> OrZero(parseFloatOf(Field(d, "g_capacity"))),
     use_kw    |-> OrZero(parseFloatOf(Field(d, "u_capacity"))),
     solar_w   |-> Coalesce(Field(d, "g_d_1_capacity")),
     enefarm_w |-> Coalesce(Field(d, "g_d_2_capacity"))]

\* getRealtime up to its await: the request is sent.
getRealtimeCall ==
    /\ act.fn = "getRealtime" /\ act.pc = "idle"
    /\ act' = [act EXCEPT !.pc = "await",
                          !.sent = [path |-> "/data/electricflow/111/update"]]

\* The answer is there: a rejected request, a status that is not ok and a
\* body that is not JSON throw; else the result is built from the JSON.
getRealtimeSettle(o) ==
    /\ act.fn = "getRealtime" /\ act.pc = "await"
    /\ IF o.neterr \/ o.status /= 200 \/ ~o.json
       THEN act' = [act EXCEPT !.pc = "threw"]
       ELSE act' = [act EXCEPT !.pc = "returned",
                              !.ret = realtimeNumbers(act.args)]

\* ------------------------------------------------------------------------
\* aiseg2.js: getCircuits, the circuit list read from the settings page
\* ------------------------------------------------------------------------

\* The page has at most this many blocks (script elements or other markup).
MaxBlocks == 2

\* A script's content is held as its pieces in order: an identifier, the
\* marker, a parenthesis, blanks, or a piece of text between parentheses.
Marker == "arrayCircuitNameList"

\* The entries the appliance's list is made of here: an enabled circuit
\* with a name, a disabled one, an enabled one with a numeric id and no
\* name.
EntryOn ==
    [t |-> "object", strId |-> Str(<<"1">>), strBtnType |-> Str(<<"1">>),
     strCircuit |-> Str(<<"A">>)]

EntryOff ==
    [t |-> "object", strId |-> Str(<<"2">>), strBtnType |-> Str(<<"0">>),
     strCircuit |-> Str(<<"B">>)]

EntryBare == [t |-> "object", strId |-> Num(3000), strBtnType |-> Str(<<"1">>)]

\* The texts JSON.parse accepts among the pieces, and what each parses to.
JsonTexts ==
    { "null", "{}", "{\"arrayCircuitNameList\":[]}",
      "{\"arrayCircuitNameList\":[{\"strId\":\"1\",\"strBtnType\":\"1\",\"strCircuit\":\"A\"},{\"strId\":\"2\",\"strBtnType\":\"0\",\"strCircuit\":\"B\"}]}",
      "{\"arrayCircuitNameList\":[{\"strId\":3,\"strBtnType\":\"1\"}]}",
      "{\"arrayCircuitNameList\":[null,{\"strId\":\"1\",\"strBtnType\":\"1\",\"strCircuit\":\"A\"}]}",
      "{\"arrayCircuitNameList\":5}" }

\* A text cut off in the middle: it holds the marker and is not JSON.
CutText == "{\"arrayCircuitNameList\":[{\"strId\":"

\* JSON.parse(text), text one of JsonTexts.
JSONparse(text) ==
    CASE text = "null" -> Null
      [] text = "{}" -> EmptyObject
      [] text = "{\"arrayCircuitNameList\":[]}" ->
            [t |-> "object", arrayCircuitNameList |-> Array(<<>>)]
      [] text = "{\"arrayCircuitNameList\":[{\"strId\":\"1\",\"strBtnType\":\"1\",\"strCircuit\":\"A\"},{\"strId\":\"2\",\"strBtnType\":\"0\",\"strCircuit\":\"B\"}]}" ->
            [t |-> "object", arrayCircuitNameList |-> Array(<<EntryOn, EntryOff>>)]
      [] text = "{\"arrayCircuitNameList\":[{\"strId\":3,\"strBtnType\":\"1\"}]}" ->
            [t |-> "object", arrayCircuitNameList |-> Array(<<EntryBare>>)]
      [] text = "{\"arrayCircuitNameList\":[null,{\"strId\":\"1\",\"strBtnType\":\"1\",\"strCircuit\":\"A\"}]}" ->
            [t |-> "object", arrayCircuitNameList |-> Array(<<Null, EntryOn>>)]
      [] text = "{\"arrayCircuitNameList\":5}" ->
            [t |-> "object", arrayCircuitNameList |-> Num(5000)]

\* s.includes('arrayCircuitNameList'): a piece is the marker or holds it.
includes(s) ==
    \E k \in 1..Len(s) :
       s[k] \in ({Marker, CutText} \cup (JsonTexts \ {"null", "{}"}))

\* s.indexOf('(') and s.lastIndexOf(')'), counted from 1; 0 when absent.
indexOf(s, piece) ==
    IF \E k \in 1..Len(s) : s[k] = piece
    THEN CHOOSE k \in 1..Len(s) :
            s[k] = piece /\ \A j \in 1..(k - 1) : s[j] /= piece
    ELSE 0

lastIndexOf(s, piece) ==
    IF \E k \in 1..Len(s) : s[k] = piece
    THEN CHOOSE k \in 1..Len(s) :
            s[k] = piece /\ \A j \in (k + 1)..Len(s) : s[j] /= piece
    ELSE 0

\* s.slice(l + 1, rpos): the pieces after the one at l and before the one at
\* rpos.
slice(s, l, rpos) == SubSeq(s, l + 1, rpos - 1)

\* text.trim()
RECURSIVE trim(_)
trim(s) ==
    IF s = <<>> THEN s
    ELSE IF Head(s) = " " THEN trim(Tail(s))
    ELSE IF s[Len(s)] = " " THEN trim(SubSeq(s, 1, Len(s) - 1))
    ELSE s

\* JSON.parse returns for the trimmed pieces: they are one JSON text. Any
\* other run of these pieces is a SyntaxError.
Parses(text) == Len(text) = 1 /\ text[1] \in JsonTexts

\* String(v) of a string or a number.
String(v) == IF v.t = "num" THEN Str(NumberText(v.v \div 1000)) ELSE v

\* c.strCircuit || `Circuit ${c.strId}`
nameOf(c) ==
    IF "strCircuit" \in DOMAIN c /\ c.strCircuit /= Str(<<>>)
    THEN c.strCircuit
    ELSE Str(<<"C", "i", "r", "c", "u", "i", "t", " ">> \o String(c.strId).s)

\* .filter(c => c.strBtnType === '1').map(c => ({ id, name })) of an array
\* of objects.
RECURSIVE filterMap(_)
filterMap(items) ==
    IF items = <<>> THEN <<>>
    ELSE LET c == Head(items)
         IN  (IF "strBtnType" \in DOMAIN c /\ c.strBtnType = Str(<<"1">>)
              THEN <<[id |-> String(c.strId), name |-> nameOf(c)]>>
              ELSE <<>>) \o filterMap(Tail(items))

\* The statements of the try block throw a TypeError: data is null, the
\* list is neither falsy nor an array (no filter method), or an entry of it
\* is null (c.strBtnType of null).
TypeError(data) ==
    \/ data.t = "null"
    \/ /\ "arrayCircuitNameList" \in DOMAIN data
       /\ LET list == data.arrayCircuitNameList
          IN  \/ list.t = "num" /\ list.v /= 0
              \/ list.t = "array" /\ \E k \in 1..Len(list.items) : list.items[k].t = "null"

\* (data.arrayCircuitNameList || []).filter(...).map(...), when it does not
\* throw.
enabledOf(data) ==
    IF "arrayCircuitNameList" \in DOMAIN data /\ data.arrayCircuitNameList.t = "array"
    THEN filterMap(data.arrayCircuitNameList.items)
    ELSE <<>>

\* One turn of the loop over scripts: "continue" (no marker, no parentheses
\* in order, or an exception caught), or the list returned.
Continue == [t |-> "continue"]

loopBody(s) ==
    IF ~includes(s) THEN Continue
    ELSE LET l == indexOf(s, "(")
             rpos == lastIndexOf(s, ")")
         IN  IF l = 0 \/ rpos <= l THEN Continue
             ELSE LET text == trim(slice(s, l, rpos))
                  IN  IF ~Parses(text) THEN Continue
                      ELSE IF TypeError(JSONparse(text[1])) THEN Continue
                      ELSE Array(enabledOf(JSONparse(text[1])))

\* [...html.matchAll(/<script[^>]*>([\s\S]*?)<\/script>/g)].map(m => m[1]):
\* the contents of the page's script elements, in page order.
RECURSIVE scriptsOf(_)
scriptsOf(html) ==
    IF html = <<>> THEN <<>>
    ELSE (IF Head(html).script THEN <<Head(html).body>> ELSE <<>>)
         \o scriptsOf(Tail(html))

\* for (const s of scripts) { ... } return [];
RECURSIVE forScripts(_)
forScripts(scripts) ==
    IF scripts = <<>> THEN <<>>
    ELSE LET r == loopBody(Head(scripts))
         IN  IF r = Continue THEN forScripts(Tail(scripts)) ELSE r.items

\* What stands between the parentheses in the contents tried: nothing, a
\* JSON text, a JSON text between blanks, a text cut off.
Arguments ==
    {<<>>, <<CutText>>, <<" ", "{\"arrayCircuitNameList\":[{\"strId\":3,\"strBtnType\":\"1\"}]}", " ">>}
       \cup { <<x>> : x \in JsonTexts }

\* The script contents tried: an identifier, the marker or nothing, followed
\* by nothing, by parentheses out of order or unclosed, by a call, or by two
\* calls.
ScriptBodies ==
    { head \o rest :
        head \in {<<>>, <<"f">>, <<Marker>>},
        rest \in {<<>>, <<"(">>, <<")", "(">>}
                 \cup { <<"(">> \o a \o <<")">> : a \in Arguments }
                 \cup { <<"(", "{\"arrayCircuitNameList\":[]}", ")", "f", "(", ")">> } }

\* The blocks of a page: a script element, or markup that is no script
\* element and shows a call with the marker.
Blocks ==
    { [script |-> TRUE, body |-> b] : b \in ScriptBodies }
       \cup { [script |-> FALSE, body |-> <<Marker, "(", "{\"arrayCircuitNameList\":[]}", ")">>] }

Pages == UNION { [1..n -> Blocks] : n \in 0..MaxBlocks }

\* getCircuits() up to its await: the request for the settings page is sent.
getCircuitsCall ==
    /\ act.fn = "getCircuits" /\ act.pc = "idle"
    /\ act' = [act EXCEPT !.pc = "await",
                          !.sent = [path |-> "/page/setting/installation/734"]]

\* The page is there, or the request was rejected (digestFetch throws). The
\* status is not looked at: the body of any answer is read as the page.
getCircuitsSettle(neterr) ==
    /\ act.fn = "getCircuits" /\ act.pc = "await"
    /\ IF neterr
       THEN act' = [act EXCEPT !.pc = "threw",
                              !.ret = [t |-> "error", from |-> "digestFetch"]]
       ELSE act' = [act EXCEPT !.pc = "returned",
                              !.ret = Array(forScripts(scriptsOf(act.args)))]

\* ------------------------------------------------------------------------
\* server.js: POST /api/nicknames
\* ------------------------------------------------------------------------

\* The request bodies tried: a name or the empty name for the first AC and
\* the first floor heater, a body without nodeId, one without eoj, and no
\* body at all (`req.body || {}`).
NickRequests ==
    { [nodeId |-> d.nodeId, eoj |-> d.eoj, name |-> n] :
         d \in {AC_DEVICES[1], FH_DEVICES[1]}, n \in {"Den", ""} }
    \cup { [nodeId |-> Absent, eoj |-> "0x013001", name |-> "Den"],
           [nodeId |-> AC_DEVICES[1].nodeId, eoj |-> Absent, name |-> "Den"],
           [nodeId |-> Absent, eoj |-> Absent, name |-> Absent] }

\* nicknames[key] = name
SetNickname(nicks, key, name) ==
    [k \in DOMAIN nicks \cup {key} |-> IF k = key THEN name ELSE nicks[k]]

\* delete nicknames[key]
DeleteNickname(nicks, key) == [k \in DOMAIN nicks \ {key} |-> nicks[k]]

\* The handler with a guard that looks at nodeId only.
NickRequestNodeOnly(req, written) ==
    /\ IF req.nodeId = Absent
       THEN /\ emitted' = [kind |-> "response", route |-> "nicknames",
                           status |-> 400, body |-> [error |-> "required"]]
            /\ UNCHANGED <<nicknames, nicknamesFile, cache>>
       ELSE LET key == <<req.nodeId, req.eoj>>
                nicks == IF req.name /= ""
                         THEN SetNickname(nicknames, key, req.name)
                         ELSE DeleteNickname(nicknames, key)
            IN  /\ nicknames' = nicks
                /\ IF written
                   THEN /\ nicknamesFile' = stringify(nicks)
                        /\ cache' = [cache EXCEPT !.devices = applyNicknames(nicks, @)]
                        /\ emitted' = [kind |-> "response", route |-> "nicknames",
                                       status |-> 200, body |-> [ok |-> TRUE]]
                   ELSE /\ UNCHANGED <<nicknamesFile, cache>>
                        /\ emitted' = [kind |-> "response", route |-> "nicknames",
                                       status |-> 500, body |-> [error |-> "write"]]
    /\ UNCHANGED <<workload, now, ticks, token, ops, wsVars, timeouts>>

\* POST /api/nicknames: the mapping is changed, the file written, then the
\* cached devices are annotated again. fs.writeFileSync either writes the
\* whole text or throws (written = FALSE): the handler catches nothing, the
\* statements after it do not run and the framework answers 500.
NickRequest(req, written) ==
    /\ IF req.nodeId = Absent \/ req.eoj = Absent
       THEN /\ emitted' = [kind |-> "response", route |-> "nicknames",
                           status |-> 400, body |-> [error |-> "required"]]
            /\ UNCHANGED <<nicknames, nicknamesFile, cache>>
       ELSE LET key == <<req.nodeId, req.eoj>>
                nicks == IF req.name /= ""
                         THEN SetNickname(nicknames, key, req.name)
                         ELSE DeleteNickname(nicknames, key)
            IN  /\ nicknames' = nicks
                /\ IF written
                   THEN /\ nicknamesFile' = stringify(nicks)
                        /\ cache' = [cache EXCEPT !.devices = applyNicknames(nicks, @)]
                        /\ emitted' = [kind |-> "response", route |-> "nicknames",
                                       status |-> 200, body |-> [ok |-> TRUE]]
                   ELSE /\ UNCHANGED <<nicknamesFile, cache>>
                        /\ emitted' = [kind |-> "response", route |-> "nicknames",
                                       status |-> 500, body |-> [error |-> "write"]]
    /\ UNCHANGED <<workload, now, ticks, token, ops, wsVars, timeouts>>

\* server.listen's callback has run to its await:
\* Promise.all([fetchRealtime(), fetchTotals()]) is in flight.
Prewarming ==
    ops = SetToBag({ [kind |-> "startup", cat |-> c, stage |-> "fetch",
                      arg |-> Null, calls |-> 1, stale |-> TRUE,
                      listAtIssue |-> FALSE, issued |-> IssueTime] :
                    c \in {"realtime", "totals"} })

\* Nothing in flight, nobody connected, the clock at its start, and the
\* cache and session token as given.
Settled(c, tok) ==
    /\ now = StartTime
    /\ ticks = 0
    /\ cache = c
    /\ nicknames = <<>>
    /\ nicknamesFile = NoFile
    /\ token = tok
    /\ clients = [k \in ClientIds |-> "none"]
    /\ pollHandle = Null
    /\ totalsHandle = Null
    /\ devicesHandle = Null
    /\ intervals = [k \in {"realtime", "totals", "devices"} |-> 0]
    /\ starts = 0
    /\ timeouts = <<>>
    /\ emitted = NoOut
    /\ ops = EmptyBag

\* The cache once the pre-warm has completed, within the first millisecond.
PrewarmedCache ==
    [EmptyCache EXCEPT
       !.realtime = getRealtime("flow1"), !.realtimeAt = StartTime,
       !.totals = getTotals(
           [k \in TotalsKeys |->
               [err |-> FALSE, page |-> SpanPage(<<"1", ".", "5">>)]]),
       !.totalsAt = StartTime]

\* The pre-warm has completed and nothing else has happened.
Prewarmed == Settled(PrewarmedCache, [token |-> Absent, at |-> 0])

\* The cache once, besides, GET /api/devices and GET /api/circuits have
\* been answered, within the first millisecond.
WarmCache ==
    [PrewarmedCache EXCEPT
       !.devices = getDevices("777",
                      [acs |-> [i \in 1..3 |-> DeviceEntry(AC_DEVICES[i], "0x31")],
                       fhs |-> [i \in 1..2 |-> DeviceEntry(FH_DEVICES[i], "0x31")]]),
       !.devicesAt = StartTime,
       !.circuits = Array(<<[id |-> 1, name |-> "c1"]>>),
       !.circuitKwh = WithKwh(Array(<<[id |-> 1, name |-> "c1"]>>),
                              getAllCircuitKwh(<<[id |-> 1, name |-> "c1"]>>, 1)),
       !.circuitKwhAt = StartTime]

\* Every category has been fetched once and nothing is in flight.
Warm == Settled(WarmCache, [token |-> "777", at |-> StartTime])

\* ------------------------------------------------------------------------
\* Specifications
\* ------------------------------------------------------------------------

InitKwh ==
    /\ DigIdle /\ TotIdle /\ ActIdle /\ AppIdle
    /\ ServerIdle
    /\ \E n \in 0..MaxCircuits, asc \in BOOLEAN :
          bulk = [pc |-> "idle", circuits |-> CircuitList(n, asc), i |-> 0,
                  pending |-> {}, batchResults |-> <<>>, results |-> <<>>]
    /\ \E p \in 1..NumPatterns :
          bulkEnv = [pattern |-> p, issued |-> {}, settled |-> {}]

NextKwh ==
    \/ BulkCall /\ UNCHANGED <<digVars, totVars, act, app, serverVars>>
    \/ \E j \in 0..(CONCURRENCY - 1) : BulkSettle(j) /\ UNCHANGED <<digVars, totVars, act, app, serverVars>>
    \/ BulkBatchDone /\ UNCHANGED <<digVars, totVars, act, app, serverVars>>

SpecKwh == InitKwh /\ [][NextKwh]_vars

InitDigest == DigIdle /\ BulkIdle /\ TotIdle /\ ActIdle /\ AppIdle /\ ServerIdle

NextDigest ==
    \/ \E call \in DigestCalls : DigCall(call) /\ UNCHANGED <<bulkVars, totVars, act, app, serverVars>>
    \/ DigFirstFails /\ UNCHANGED <<bulkVars, totVars, act, app, serverVars>>
    \/ \E st \in Statuses, ch \in Challenges, cn \in CNonces :
          DigFirst(st, ch, cn) /\ UNCHANGED <<bulkVars, totVars, act, app, serverVars>>
    \/ DigSecondFails /\ UNCHANGED <<bulkVars, totVars, act, app, serverVars>>
    \/ \E st \in Statuses : DigSecond(st) /\ UNCHANGED <<bulkVars, totVars, act, app, serverVars>>

SpecDigest == InitDigest /\ [][NextDigest]_vars

\* setFHLevel: one call for a floor heater, with any whole level from
\* -MaxLevel to MaxLevel, answered by the appliance in any way.
InitLevel ==
    /\ BulkIdle /\ DigIdle /\ TotIdle /\ AppIdle /\ ServerIdle
    /\ \E level \in (-MaxLevel)..MaxLevel : \E i \in 1..Len(FH_DEVICES) :
          act = [fn |-> "setFHLevel", pc |-> "idle",
                 args |-> [nodeId |-> FH_DEVICES[i].nodeId,
                           eoj |-> FH_DEVICES[i].eoj, state |-> "0x30",
                           level |-> level, token |-> "777"],
                 sent |-> Null, ret |-> Null]

NextLevel ==
    \/ setFHLevelCall /\ UNCHANGED <<bulkVars, digVars, totVars, app, serverVars>>
    \/ \E o \in ControlReplies :
          setFHLevelSettle(o) /\ UNCHANGED <<bulkVars, digVars, totVars, app, serverVars>>

SpecLevel == InitLevel /\ [][NextLevel]_vars

\* getDevices: one call, the token, the listings and the three detail
\* requests answered in any way and in any order.
InitDevices ==
    /\ BulkIdle /\ DigIdle /\ TotIdle /\ AppIdle /\ ServerIdle
    /\ act = [fn |-> "getDevices", pc |-> "idle", args |-> Null, sent |-> Null,
              ret |-> Null]

NextDevices ==
    \/ \E tokenOk \in BOOLEAN :
          getDevicesCall(tokenOk) /\ UNCHANGED <<bulkVars, digVars, totVars, app, serverVars>>
    \/ \E oa \in ListReplies(AC_DEVICES), of \in ListReplies(FH_DEVICES),
          og \in ListReplies(<<>>) :
          getDevicesLists(oa, of, og) /\ UNCHANGED <<bulkVars, digVars, totVars, app, serverVars>>
    \/ \E i \in 1..Len(AC_DEVICES) : \E o \in DetailReplies(i) :
          getDevicesDetail(i, o) /\ UNCHANGED <<bulkVars, digVars, totVars, app, serverVars>>
    \/ getDevicesReturn /\ UNCHANGED <<bulkVars, digVars, totVars, app, serverVars>>

SpecDevices == InitDevices /\ [][NextDevices]_vars

\* The page, loaded: initialFetch(); connect(). Its sockets then open,
\* close and fail, its timers fire and it is hidden and shown, in any order.
InitApp ==
    /\ BulkIdle /\ DigIdle /\ TotIdle /\ ActIdle /\ ServerIdle
    /\ app = [ws |-> 1,
              sockets |-> [s \in SocketIds |-> IF s = 1 THEN "connecting" ELSE "none"],
              reconnectDelay |-> InitialDelay, reconnectTimer |-> FALSE,
              strays |-> 0, pollTimer |-> FALSE]

NextApp ==
    \/ \E s \in SocketIds :
          SocketOpens(s) /\ UNCHANGED <<bulkVars, digVars, totVars, act, serverVars>>
    \/ \E s \in SocketIds :
          SocketClosing(s) /\ UNCHANGED <<bulkVars, digVars, totVars, act, serverVars>>
    \/ \E s \in SocketIds :
          SocketCloses(s) /\ UNCHANGED <<bulkVars, digVars, totVars, act, serverVars>>
    \/ \E s \in SocketIds :
          SocketFails(s) /\ UNCHANGED <<bulkVars, digVars, totVars, act, serverVars>>
    \/ ReconnectFires /\ UNCHANGED <<bulkVars, digVars, totVars, act, serverVars>>
    \/ StrayFires /\ UNCHANGED <<bulkVars, digVars, totVars, act, serverVars>>
    \/ Visible /\ UNCHANGED <<bulkVars, digVars, totVars, act, serverVars>>

SpecApp == InitApp /\ [][NextApp]_vars

\* getRealtime: one call, the appliance answering with any of the bodies,
\* or not answering.
InitRealtime ==
    /\ BulkIdle /\ DigIdle /\ TotIdle /\ AppIdle /\ ServerIdle
    /\ \E d \in FlowBodies :
          act = [fn |-> "getRealtime", pc |-> "idle", args |-> d, sent |-> Null,
                 ret |-> Null]

NextRealtime ==
    \/ getRealtimeCall /\ UNCHANGED <<bulkVars, digVars, totVars, app, serverVars>>
    \/ \E o \in ControlReplies :
          getRealtimeSettle(o) /\ UNCHANGED <<bulkVars, digVars, totVars, app, serverVars>>

SpecRealtime == InitRealtime /\ [][NextRealtime]_vars

\* getCircuits: one call, the appliance answering with any of the pages, or
\* not answering.
InitParse ==
    /\ BulkIdle /\ DigIdle /\ TotIdle /\ AppIdle /\ ServerIdle
    /\ \E html \in Pages :
          act = [fn |-> "getCircuits", pc |-> "idle", args |-> html, sent |-> Null,
                 ret |-> Null]

NextParse ==
    \/ getCircuitsCall /\ UNCHANGED <<bulkVars, digVars, totVars, app, serverVars>>
    \/ \E neterr \in BOOLEAN :
          getCircuitsSettle(neterr) /\ UNCHANGED <<bulkVars, digVars, totVars, app, serverVars>>

SpecParse == InitParse /\ [][NextParse]_vars

\* getTotals: one call, the four page requests coming to any of the
\* outcomes, their chains settling in any order.
InitTotals ==
    /\ BulkIdle /\ DigIdle /\ ActIdle /\ AppIdle /\ ServerIdle
    /\ tot = [pc |-> "idle", results |-> [k \in TotalsKeys |-> Pending],
              ret |-> Null]
    /\ \E sc \in [TotalsKeys -> ScrapeOutcomes] : totEnv = [scrapes |-> sc]

NextTotals ==
    \/ TotCall /\ UNCHANGED <<bulkVars, digVars, act, app, serverVars>>
    \/ \E k \in TotalsKeys : TotSettle(k) /\ UNCHANGED <<bulkVars, digVars, act, app, serverVars>>
    \/ TotReturn /\ UNCHANGED <<bulkVars, digVars, act, app, serverVars>>

SpecTotals == InitTotals /\ [][NextTotals]_vars

\* The cache under REST reads: the server has started (pre-warm in flight),
\* reads of the run's routes arrive at any time, upstream calls come back
\* in any order with any outcome, and the clock advances by 1 ms or by the
\* TTL of a route read.  Runs that read realtime or totals begin with the
\* pre-warm in flight; runs that read devices or circuits begin after it
\* has completed.
CacheTickSteps == {1} \cup {TTL(c) : c \in workload.routes}

InitCache ==
    /\ BulkIdle /\ DigIdle /\ TotIdle /\ ActIdle /\ AppIdle
    /\ \E c \in Categories : workload = [NoWorkload EXCEPT !.routes = {c}]
    /\ \/ ServerLoaded /\ Prewarming /\ workload.routes \subseteq {"realtime", "totals"}
       \/ Prewarmed /\ workload.routes \subseteq {"devices", "circuitKwh"}

NextCache ==
    \/ \E cat \in Categories : RestRead(cat) /\ UNCHANGED <<bulkVars, digVars, totVars, act, app>>
    \/ \E op \in BagToSet(ops) : \E o \in Outcomes(op) :
          Resolve(op, o) /\ UNCHANGED <<bulkVars, digVars, totVars, act, app>>
    \/ \E d \in CacheTickSteps : Tick(d) /\ UNCHANGED <<bulkVars, digVars, totVars, act, app>>

SpecCache == InitCache /\ [][NextCache]_vars

\* The REST reads of one category and the pre-warm, the time each fetch
\* began recorded.
InitOverlap ==
    /\ BulkIdle /\ DigIdle /\ TotIdle /\ ActIdle /\ AppIdle
    /\ \E c \in {"realtime", "totals", "devices"} :
          workload = [NoWorkload EXCEPT !.routes = {c}, !.stamped = TRUE]
    /\ \/ ServerLoaded /\ Prewarming /\ workload.routes \subseteq {"realtime", "totals"}
       \/ Prewarmed /\ workload.routes \subseteq {"devices"}

NextOverlap ==
    \/ \E cat \in Categories : RestRead(cat) /\ UNCHANGED <<bulkVars, digVars, totVars, act, app>>
    \/ \E op \in BagToSet(ops) : \E o \in Outcomes(op) :
          Resolve(op, o) /\ UNCHANGED <<bulkVars, digVars, totVars, act, app>>
    \/ \E d \in CacheTickSteps : Tick(d) /\ UNCHANGED <<bulkVars, digVars, totVars, act, app>>

SpecOverlap == InitOverlap /\ [][NextOverlap]_vars

\* The cache under everything that writes it: the REST reads of one
\* category, the pre-warm, and, next to device reads, nickname requests.
InitStamp == InitCache

\* The nickname requests of these runs: a name for the first AC, and its
\* reset.
StampRequests == {req \in NickRequests : req.nodeId = AC_DEVICES[1].nodeId}

NextStamp ==
    \/ NextCache
    \/ \E req \in StampRequests :
          /\ "devices" \in workload.routes
          /\ NickRequest(req, TRUE)
          /\ UNCHANGED <<bulkVars, digVars, totVars, act, app>>

SpecStamp == InitStamp /\ [][NextStamp]_vars

\* The push channel: connections open and close in any order, the interval
\* timers of the run fire at any time while they are alive, and upstream
\* calls come back in any order with any outcome.  A run begins with the
\* pre-warm in flight and sees the realtime interval elapse, or begins with
\* every category cached and sees the totals or the devices interval elapse.
InitPush ==
    /\ BulkIdle /\ DigIdle /\ TotIdle /\ ActIdle /\ AppIdle
    /\ \/ /\ workload = [NoWorkload EXCEPT !.polls = {"realtime"}]
          /\ ServerLoaded /\ Prewarming
       \/ Warm /\ \E cat \in {"totals", "devices"} :
                    workload = [NoWorkload EXCEPT !.polls = {cat}]

NextPush ==
    \/ \E c \in ClientIds : Connect(c) /\ UNCHANGED <<bulkVars, digVars, totVars, act, app>>
    \/ \E c \in ClientIds : CloseBegin(c) /\ UNCHANGED <<bulkVars, digVars, totVars, act, app>>
    \/ \E c \in ClientIds : Closed(c) /\ UNCHANGED <<bulkVars, digVars, totVars, act, app>>
    \/ \E cat \in Polled : IntervalFires(cat) /\ UNCHANGED <<bulkVars, digVars, totVars, act, app>>
    \/ \E op \in BagToSet(ops) : \E o \in Outcomes(op) :
          Resolve(op, o) /\ UNCHANGED <<bulkVars, digVars, totVars, act, app>>

SpecPush == InitPush /\ [][NextPush]_vars

\* Circuits: the pre-warm has completed, one connection has been made and
\* its immediate realtime poll has come back within the first millisecond;
\* the circuit list is not yet loaded.  The connection sends loadCircuits
\* and other frames, GET /api/circuits arrives, the appliance answers in
\* any way and the clock advances past the kWh TTL.
Subscribed ==
    /\ now = StartTime
    /\ ticks = 0
    /\ cache = PrewarmedCache
    /\ nicknames = <<>>
    /\ nicknamesFile = NoFile
    /\ token = [token |-> Absent, at |-> 0]
    /\ clients = [k \in ClientIds |-> IF k = 1 THEN "open" ELSE "none"]
    /\ pollHandle = Timer
    /\ totalsHandle = Timer
    /\ devicesHandle = Timer
    /\ intervals = [k \in Polled |-> 1]
    /\ starts = 1
    /\ timeouts = <<>>
    /\ emitted = NoOut
    /\ ops = EmptyBag

InitCircuits ==
    /\ BulkIdle /\ DigIdle /\ TotIdle /\ ActIdle /\ AppIdle /\ Subscribed
    /\ workload = [NoWorkload EXCEPT !.routes = {"circuitKwh"}]

NextCircuits ==
    \/ \E c \in ClientIds : \E a \in MessageActions :
          Message(c, a) /\ UNCHANGED <<bulkVars, digVars, totVars, act, app>>
    \/ RestRead("circuitKwh") /\ UNCHANGED <<bulkVars, digVars, totVars, act, app>>
    \/ \E op \in BagToSet(ops) : \E o \in Outcomes(op) :
          Resolve(op, o) /\ UNCHANGED <<bulkVars, digVars, totVars, act, app>>
    \/ Tick(TTL("circuitKwh") + 1) /\ UNCHANGED <<bulkVars, digVars, totVars, act, app>>

SpecCircuits == InitCircuits /\ [][NextCircuits]_vars

\* The push channel's message handler: the server started, every connection
\* open, and loadCircuits or other messages arriving on any of them.
\* The circuits of the house in the runs that count kWh requests.
HouseCircuits == 6

\* The cache once the circuit list of the house and its kWh have been
\* fetched, within the first millisecond.
LoadedCache ==
    [PrewarmedCache EXCEPT
       !.circuits = Array(CircuitList(HouseCircuits, TRUE)),
       !.circuitKwh = WithKwh(Array(CircuitList(HouseCircuits, TRUE)),
                              getAllCircuitKwh(CircuitList(HouseCircuits, TRUE), 1)),
       !.circuitKwhAt = StartTime]

\* One connection open, the circuits of the house loaded or no list loaded
\* yet; circuits reads by REST and by loadCircuits, before and after the
\* kWh entry expires.
InitBurst ==
    /\ BulkIdle /\ DigIdle /\ TotIdle /\ ActIdle /\ AppIdle
    /\ workload = [NoWorkload EXCEPT !.routes = {"circuitKwh"}]
    /\ now = StartTime
    /\ ticks = 0
    /\ (cache = LoadedCache \/ cache = PrewarmedCache)
    /\ nicknames = <<>>
    /\ nicknamesFile = NoFile
    /\ token = [token |-> Absent, at |-> 0]
    /\ clients = [k \in ClientIds |-> IF k = 1 THEN "open" ELSE "none"]
    /\ pollHandle = Timer
    /\ totalsHandle = Timer
    /\ devicesHandle = Timer
    /\ intervals = [k \in Polled |-> 1]
    /\ starts = 1
    /\ timeouts = <<>>
    /\ emitted = NoOut
    /\ ops = EmptyBag

NextBurst ==
    \/ \E c \in ClientIds : \E a \in MessageActions :
          Message(c, a) /\ UNCHANGED <<bulkVars, digVars, totVars, act, app>>
    \/ RestRead("circuitKwh") /\ UNCHANGED <<bulkVars, digVars, totVars, act, app>>
    \/ \E op \in BagToSet(ops) : \E o \in Outcomes(op) :
          Resolve(op, o) /\ UNCHANGED <<bulkVars, digVars, totVars, act, app>>
    \/ \E d \in {1, TTL("circuitKwh")} :
          Tick(d) /\ UNCHANGED <<bulkVars, digVars, totVars, act, app>>

SpecBurst == InitBurst /\ [][NextBurst]_vars

InitReply ==
    /\ BulkIdle /\ DigIdle /\ TotIdle /\ ActIdle /\ AppIdle
    /\ now = StartTime
    /\ ticks = 0
    /\ cache = PrewarmedCache
    /\ nicknames = <<>>
    /\ nicknamesFile = NoFile
    /\ token = [token |-> Absent, at |-> 0]
    /\ clients = [k \in ClientIds |-> "open"]
    /\ pollHandle = Timer
    /\ totalsHandle = Timer
    /\ devicesHandle = Timer
    /\ intervals = [k \in Polled |-> 1]
    /\ starts = 1
    /\ timeouts = <<>>
    /\ emitted = NoOut
    /\ ops = EmptyBag
    /\ workload = NoWorkload

NextReply ==
    \/ \E c \in ClientIds : \E a \in MessageActions :
          Message(c, a) /\ UNCHANGED <<bulkVars, digVars, totVars, act, app>>
    \/ \E op \in BagToSet(ops) : \E o \in Outcomes(op) :
          Resolve(op, o) /\ UNCHANGED <<bulkVars, digVars, totVars, act, app>>

SpecReply == InitReply /\ [][NextReply]_vars

\* An interval timer of the push channel fires.
TimerFires(cat) ==
    IntervalFires(cat) /\ UNCHANGED <<bulkVars, digVars, totVars, act, app>>

\* An upstream call made for category cat comes back, and not with a
\* failure.
Succeeds(cat) ==
    \E op \in BagToSet(ops) : \E o \in Outcomes(op) :
       /\ op.cat = cat
       /\ FetchStep(op, o).state /= "fail"
       /\ Resolve(op, o)
       /\ UNCHANGED <<bulkVars, digVars, totVars, act, app>>

\* The push channel with one subscriber that stays: the three timers are
\* alive, every upstream call succeeds. A timer of setInterval keeps firing
\* whatever is in flight (the limit on activations in flight withholds it
\* here only for a while, hence strong fairness), and every call made is
\* answered.
InitLive ==
    /\ BulkIdle /\ DigIdle /\ TotIdle /\ ActIdle /\ AppIdle /\ Subscribed
    /\ workload = [NoWorkload EXCEPT !.polls = Polled]

NextLive ==
    \/ \E cat \in Polled : TimerFires(cat)
    \/ \E cat \in Polled : Succeeds(cat)

SpecLive ==
    /\ InitLive /\ [][NextLive]_vars
    /\ \A cat \in Polled : SF_vars(TimerFires(cat)) /\ WF_vars(Succeeds(cat))

\* The session token under GET /api/devices: the pre-warm has completed,
\* with the devices not yet or already cached; reads arrive at any time,
\* the appliance answers in any way, and the clock advances by 1 ms or by
\* 1 ms less than the token's hour.
TokenTickSteps == {1, 3599999}

InitToken ==
    /\ BulkIdle /\ DigIdle /\ TotIdle /\ ActIdle /\ AppIdle
    /\ Prewarmed \/ Warm
    /\ workload = [NoWorkload EXCEPT !.routes = {"devices"}]

NextToken ==
    \/ RestRead("devices") /\ UNCHANGED <<bulkVars, digVars, totVars, act, app>>
    \/ \E op \in BagToSet(ops) : \E o \in Outcomes(op) :
          Resolve(op, o) /\ UNCHANGED <<bulkVars, digVars, totVars, act, app>>
    \/ \E d \in TokenTickSteps : Tick(d) /\ UNCHANGED <<bulkVars, digVars, totVars, act, app>>

SpecToken == InitToken /\ [][NextToken]_vars

\* Control requests: the pre-warm has completed; requests with the run's
\* action arrive at any time, the appliance answers in any way, the clock
\* advances by the settle delay or by the token's hour, and the scheduled
\* refreshes run.  The runs with toggleAC begin with the devices not yet
\* or already cached, the others with the devices not yet cached.
ControlTickSteps == {SettleDelay, 3600000}

InitControl ==
    /\ BulkIdle /\ DigIdle /\ TotIdle /\ ActIdle /\ AppIdle
    /\ \E a \in ControlActions : workload = [NoWorkload EXCEPT !.actions = {a}]
    /\ \/ Prewarmed
       \/ Warm /\ workload.actions = {"toggleAC"}

NextControl ==
    \/ \E a \in ControlActions : ControlRequest(a) /\ UNCHANGED <<bulkVars, digVars, totVars, act, app>>
    \/ \E op \in BagToSet(ops) : \E o \in Outcomes(op) :
          ControlResolve(op, o) /\ UNCHANGED <<bulkVars, digVars, totVars, act, app>>
    \/ TimeoutFires /\ UNCHANGED <<bulkVars, digVars, totVars, act, app>>
    \/ \E op \in BagToSet(ops) : \E o \in Outcomes(op) :
          Resolve(op, o) /\ UNCHANGED <<bulkVars, digVars, totVars, act, app>>
    \/ \E d \in ControlTickSteps : Tick(d) /\ UNCHANGED <<bulkVars, digVars, totVars, act, app>>

SpecControl == InitControl /\ [][NextControl]_vars

\* Nicknames: the pre-warm has completed, with the devices not yet or
\* already cached; nickname requests and GET /api/devices arrive at any
\* time, device fetches come back in any order with any outcome, and the
\* clock advances past the devices TTL.
InitNick ==
    /\ BulkIdle /\ DigIdle /\ TotIdle /\ ActIdle /\ AppIdle
    /\ Prewarmed \/ Warm
    /\ workload = [NoWorkload EXCEPT !.routes = {"devices"}]

NextNick ==
    \/ \E req \in NickRequests : \E written \in BOOLEAN :
          NickRequest(req, written) /\ UNCHANGED <<bulkVars, digVars, totVars, act, app>>
    \/ RestRead("devices") /\ UNCHANGED <<bulkVars, digVars, totVars, act, app>>
    \/ \E op \in BagToSet(ops) : \E o \in Outcomes(op) :
          Resolve(op, o) /\ UNCHANGED <<bulkVars, digVars, totVars, act, app>>
    \/ Tick(TTL("devices") + 1) /\ UNCHANGED <<bulkVars, digVars, totVars, act, app>>

SpecNick == InitNick /\ [][NextNick]_vars

\* Rejected nickname requests: as the nickname runs, within the devices
\* TTL (the clock does not advance), so that one devices fetch at most is
\* in flight while requests with and without their keys arrive.
InitReject == InitNick

NextReject ==
    \/ \E req \in NickRequests : \E written \in BOOLEAN :
          NickRequest(req, written) /\ UNCHANGED <<bulkVars, digVars, totVars, act, app>>
    \/ RestRead("devices") /\ UNCHANGED <<bulkVars, digVars, totVars, act, app>>
    \/ \E op \in BagToSet(ops) : \E o \in Outcomes(op) :
          Resolve(op, o) /\ UNCHANGED <<bulkVars, digVars, totVars, act, app>>

SpecReject == InitReject /\ [][NextReject]_vars

\* ------------------------------------------------------------------------
\* Claims: the cache under REST reads
\* ------------------------------------------------------------------------

\* C1: for each category, a REST read that arrives while the entry is
\* within its TTL is answered at once with the cached payload, begins no
\* upstream call and leaves the cache (timestamps included) as it is; a
\* read that arrives after the TTL has expired (for circuits: with the
\* circuit list loaded) is not answered at once, begins one fetch, and is
\* answered after exactly one call of the category's appliance read, which,
\* when it succeeds, has set the timestamp to the current time and supplies
\* the payload of the answer. (With a loaded circuit list that is empty the
\* one call has no request to wait for, and the read is answered in the
\* same step.)
C1_ReadWithinAndPastTTL ==
    [][ /\ \A cat \in Categories :
              RestRead(cat) =>
                 IF now - FetchedAt(cache, cat) <= TTL(cat)
                 THEN /\ emitted'.kind = "response"
                      /\ emitted'.route = cat
                      /\ emitted'.status = 200
                      /\ emitted'.body = Payload(cache, cat)
                      /\ emitted'.calls = 0
                      /\ ops' = ops
                      /\ cache' = cache
                      /\ token' = token
                 ELSE (cat = "circuitKwh" => cache.circuits /= Null) =>
                      IF cat = "circuitKwh" /\ cache.circuits.items = <<>>
                      THEN
                      /\ emitted'.kind = "response"
                      /\ emitted'.status = 200
                      /\ emitted'.calls = 1
                      /\ emitted'.body = Payload(cache', cat)
                      /\ FetchedAt(cache', cat) = now
                      /\ ops' = ops
                      ELSE
                      /\ emitted' = NoOut
                      /\ cache' = cache
                      /\ BagCardinality(ops') = BagCardinality(ops) + 1
                      /\ \E op \in BagToSet(ops') :
                            /\ CopiesIn(op, ops') = CopiesIn(op, ops) + 1
                            /\ op.kind = "rest" /\ op.cat = cat
                            /\ op.calls = 1 /\ op.stale
        /\ emitted'.kind = "response" =>
              IF emitted'.stale
              THEN (emitted'.route = "circuitKwh" => emitted'.listAtIssue) =>
                   /\ emitted'.calls = 1
                   /\ emitted'.status = 200 =>
                         /\ FetchedAt(cache', emitted'.route) = now
                         /\ emitted'.body = Payload(cache', emitted'.route)
              ELSE emitted'.calls = 0 /\ emitted'.status = 200
      ]_vars

\* A read that arrived more than a TTL after the server started, with the
\* entry expired, has just been answered from its one successful fetch.
C1_Witness ==
    /\ emitted.kind = "response"
    /\ emitted.stale
    /\ emitted.status = 200
    /\ emitted.calls = 1
    /\ emitted.body /= Null
    /\ now > StartTime + TTL(emitted.route)
    /\ FetchedAt(cache, emitted.route) = now

\* Every upstream request of the awaited call failed.
AllFailed(op, o) ==
    CASE op.cat = "totals" -> \A k \in TotalsKeys : o.scrapes[k].err
      [] op.cat = "circuitKwh" /\ op.stage = "kwh" ->
            \A i \in 1..Len(op.arg.items) :
               UpstreamKwh(o.pattern, op.arg.items[i].id).err
      [] OTHER -> ~o.ok

\* C7: when the upstream refresh forced by an expired REST read fails, the
\* caller is answered 502 and the category's cached payload and timestamp
\* are what they were before; a read that then finds the entry past its TTL
\* begins a fetch.
C7_FailedRefresh ==
    [][ /\ \A op \in BagToSet(ops) : \A o \in Outcomes(op) :
              Resolve(op, o) /\ op.kind = "rest" /\ AllFailed(op, o) =>
                 /\ emitted'.kind = "response"
                 /\ emitted'.route = op.cat
                 /\ emitted'.status = 502
                 /\ Payload(cache', op.cat) = Payload(cache, op.cat)
                 /\ FetchedAt(cache', op.cat) = FetchedAt(cache, op.cat)
        /\ \A cat \in Categories :
              RestRead(cat) /\ now - FetchedAt(cache, cat) > TTL(cat) =>
                 BagCardinality(ops') = BagCardinality(ops) + 1
      ]_vars

\* The circuits activations suspended at the given stage that the step
\* has put there: those in flight after it in greater number than before.
Entered(stage) ==
    {op \in BagToSet(ops') :
        /\ op.cat = "circuitKwh" /\ op.stage = stage
        /\ CopiesIn(op, ops') > CopiesIn(op, ops)}

\* C17: once a circuit-list fetch has stored its list, the list stays
\* loaded and no circuits read (GET /api/circuits or loadCircuits) that
\* arrives later requests it again: a list request is begun only while no
\* list is loaded.  A per-circuit kWh fetch is begun only when the kWh
\* entry is older than 300 s.
C17_ListOnceKwhOnTTL ==
    [][ /\ cache.circuits /= Null => cache'.circuits /= Null
        /\ Entered("list") /= {} => cache.circuits = Null
        /\ Entered("kwh") /= {} => now - cache.circuitKwhAt > 300000
      ]_vars

\* With the list loaded at its issue, a read that found the kWh entry
\* expired is fetching the kWh again, having made no list request.
C17_Witness ==
    /\ cache.circuits /= Null
    /\ cache.circuitKwh /= Null
    /\ ticks >= 1
    /\ \E op \in BagToSet(ops) :
          op.cat = "circuitKwh" /\ op.stage = "kwh" /\ op.listAtIssue

\* ------------------------------------------------------------------------
\* Claims: the push channel
\* ------------------------------------------------------------------------

Connected == {c \in ClientIds : clients[c] /= "none"}

\* C2: in every reachable state the three interval loops (realtime, totals,
\* devices) run exactly when at least one subscriber connection exists:
\* the three handles are set together, and each category has one interval
\* timer alive when a connection exists and none otherwise.
C2_LoopsWhileConnected ==
    /\ pollHandle /= Null <=> Connected /= {}
    /\ totalsHandle /= Null <=> Connected /= {}
    /\ devicesHandle /= Null <=> Connected /= {}
    /\ \A cat \in Polled : intervals[cat] = IF Connected /= {} THEN 1 ELSE 0

\* The loops run again for a connection made after the last one had closed.
C2_Witness ==
    /\ starts = 2
    /\ pollHandle /= Null
    /\ \E c \in ClientIds : clients[c] = "open"
    /\ \E c \in ClientIds : clients[c] = "none"

\* The three handles are all set or all clear, and no category has more
\* than one interval timer.
HandlesTogether ==
    /\ (pollHandle = Null) = (totalsHandle = Null)
    /\ (pollHandle = Null) = (devicesHandle = Null)
    /\ \A cat \in Polled :
          intervals[cat] <= 1 /\ (intervals[cat] = 1 <=> pollHandle /= Null)

\* C37: in every reachable state the three interval handles are all set or
\* all clear and each category has at most one interval timer; a
\* subscriber that connects while polling is active creates no timer and
\* begins no poll.
C37_OneTimerPerCategory ==
    /\ []HandlesTogether
    /\ [][ \A c \in ClientIds :
              Connect(c) /\ pollHandle /= Null =>
                 /\ intervals' = intervals
                 /\ ops' = ops
                 /\ pollHandle' = pollHandle
                 /\ totalsHandle' = totalsHandle
                 /\ devicesHandle' = devicesHandle
          ]_vars

\* A second subscriber has just connected while polling was active.
C37_Witness ==
    /\ emitted.kind = "connection"
    /\ ~emitted.started
    /\ \A c \in ClientIds : clients[c] = "open"
    /\ \A cat \in Polled : intervals[cat] = 1

\* C8: the step by which a connection comes to exist sends it, for every
\* category (realtime, totals, circuits, devices) whose cached payload is
\* not null, exactly one frame of that type carrying that payload, and no
\* other frame; and a broadcast reaches only connections that are open
\* before it, that is, after their replay.
C8_SnapshotFirst ==
    [][ /\ \A c \in ClientIds :
              clients[c] = "none" /\ clients'[c] /= "none" =>
                 /\ emitted'.kind = "connection"
                 /\ emitted'.client = c
                 /\ \A i \in 1..Len(emitted'.sent) :
                       \E cat \in Categories : emitted'.sent[i].type = FrameType(cat)
                 /\ \A cat \in Categories :
                       LET idx == {i \in 1..Len(emitted'.sent) :
                                      emitted'.sent[i].type = FrameType(cat)}
                       IN  IF Payload(cache, cat) /= Null
                           THEN /\ Cardinality(idx) = 1
                                /\ \A i \in idx :
                                      emitted'.sent[i].data = Payload(cache, cat)
                           ELSE idx = {}
        /\ emitted'.kind = "broadcast" =>
              \A c \in emitted'.to : clients[c] = "open"
      ]_vars

\* A connection joins while another is open and a poll is in flight, and is
\* sent the four frames.
C8_Witness ==
    /\ emitted.kind = "connection"
    /\ Len(emitted.sent) = 4
    /\ ~emitted.started
    /\ ops /= EmptyBag

\* C13: whenever the fetch of a poll (pollRealtime, pollTotals, pollDevices)
\* succeeds, that step sends the fetched update, as a frame of the
\* category's type, to every connection that is open at that moment and to
\* each of them once.
C13_BroadcastToAllOpen ==
    [][ \A op \in BagToSet(ops) : \A o \in Outcomes(op) :
           op.kind = "poll" /\ Resolve(op, o) /\ FetchStep(op, o).state = "ok" =>
              /\ emitted'.kind = "broadcast"
              /\ emitted'.to = {c \in ClientIds : clients[c] = "open"}
              /\ emitted'.frame.type = op.cat
              /\ emitted'.frame.data = FetchStep(op, o).data
              /\ emitted'.frame.data = Payload(cache', op.cat)
      ]_vars

\* An update has just been broadcast to two open connections.
C13_Witness ==
    /\ emitted.kind = "broadcast"
    /\ Cardinality(emitted.to) = 2
    /\ emitted.frame.data = Payload(cache, emitted.frame.type)

\* C14: the step in which a poll's fetch fails closes no connection, stops
\* no interval loop (handles and timers stay as they were, so that every
\* category's timer keeps firing) and disturbs neither the cache nor the
\* other fetches in flight, which go on to their own broadcast.
C14_FailedPollIsolated ==
    [][ \A op \in BagToSet(ops) : \A o \in Outcomes(op) :
           op.kind = "poll" /\ Resolve(op, o) /\ FetchStep(op, o).state = "fail" =>
              /\ clients' = clients
              /\ pollHandle' = pollHandle
              /\ totalsHandle' = totalsHandle
              /\ devicesHandle' = devicesHandle
              /\ intervals' = intervals
              /\ \A c \in ClientIds : clients[c] /= "none" =>
                    \A cat \in Polled : intervals'[cat] > 0
              /\ ops' = ops (-) SetToBag({op})
              /\ cache' = cache
      ]_vars

\* A poll has just failed while a connection is open, the three timers are
\* alive and another poll is still in flight.
C14_Witness ==
    /\ emitted.kind = "logged"
    /\ \E c \in ClientIds : clients[c] = "open"
    /\ \A cat \in Polled : intervals[cat] = 1
    /\ \E op \in BagToSet(ops) : op.kind = "poll"

\* The frame types the push channel knows.
FrameTypes == {"realtime", "totals", "circuits", "devices", "error"}

\* A frame with the fields type, data and ts, and a known type.
WellFormed(f) == DOMAIN f = {"type", "data", "ts"} /\ f.type \in FrameTypes

\* C15: every frame the server sends on the push channel (the replay to a
\* new connection, a broadcast after a poll or after a control request, the
\* reply to loadCircuits and the error reply) has the fields type, data and
\* ts, with type one of realtime, totals, circuits, devices, error.
C15_FrameShape ==
    /\ emitted.kind = "connection" =>
          \A i \in 1..Len(emitted.sent) : WellFormed(emitted.sent[i])
    /\ emitted.kind \in {"broadcast", "reply"} => WellFormed(emitted.frame)

\* ------------------------------------------------------------------------
\* Claims: control requests and nicknames
\* ------------------------------------------------------------------------

\* C4: every answer to a control request with one of the eight supported
\* actions comes after exactly one control method was invoked for it and
\* with exactly one devices refresh scheduled for it, due after the settle
\* delay, whatever the outcome of the control.
C4_OneControlOneRefresh ==
    [][ emitted'.kind = "response" /\ emitted'.route = "control"
           /\ ControlMethod(emitted'.action) /= Absent =>
              /\ Len(emitted'.invoked) = 1
              /\ emitted'.scheduled
              /\ timeouts' = Append(timeouts, now + SettleDelay)
      ]_vars

\* C5: a control request with an unknown action is answered at once with
\* status 400, and no request to the appliance is made on its behalf, in
\* every state of the devices cache and the session token.
C5_UnknownActionRejected ==
    [][ /\ \A a \in ControlActions :
              ControlMethod(a) = Absent /\ ControlRequest(a) =>
                 emitted'.kind = "response" /\ ops' = ops
        /\ emitted'.kind = "response" /\ emitted'.route = "control"
              /\ ControlMethod(emitted'.action) = Absent =>
                 emitted'.status = 400 /\ emitted'.calls = 0
      ]_vars

\* The step belongs to a control request that is rejected for an unknown
\* action: the request arrives with such an action, or the 400 is sent.
RejectedStep ==
    \/ \E a \in ControlActions : ControlMethod(a) = Absent /\ ControlRequest(a)
    \/ /\ emitted'.kind = "response" /\ emitted'.route = "control"
       /\ emitted'.status = 400

\* C39: a control request that is rejected for an unknown action changes
\* nothing: no control method is invoked for it, no cached value and no
\* timestamp of one (the categories' entries, the session token) is
\* modified by its handler, and no devices refresh is scheduled.
C39_RejectedChangesNothing ==
    [][ RejectedStep =>
           /\ emitted'.kind = "response" => emitted'.invoked = <<>> /\ ~emitted'.scheduled
           /\ cache' = cache
           /\ timeouts' = timeouts
           /\ token' = token
      ]_vars

\* The part of C39 about the categories' entries, the control methods and
\* the refresh.
C39_EntriesAndTimersKept ==
    [][ RejectedStep =>
           /\ emitted'.kind = "response" => emitted'.invoked = <<>> /\ ~emitted'.scheduled
           /\ cache' = cache
           /\ timeouts' = timeouts
      ]_vars

\* The request body lacks nodeId or eoj.
Lacking(req) == req.nodeId = Absent \/ req.eoj = Absent

\* C40: a nickname request lacking nodeId or eoj is answered with status
\* 400 and leaves the mapping in memory, the nickname file and the devices
\* cache as they were, whether the file could have been written or not.
C40_LackingKeyRejected ==
    [][ \A req \in NickRequests : \A written \in BOOLEAN :
           Lacking(req) /\ NickRequest(req, written) =>
              /\ emitted'.kind = "response" /\ emitted'.route = "nicknames"
              /\ emitted'.status = 400
              /\ nicknames' = nicknames
              /\ nicknamesFile' = nicknamesFile
              /\ cache' = cache
      ]_vars

\* A request has just been rejected while a nickname is set, saved and
\* shown by the cached devices.
C40_Witness ==
    /\ emitted.kind = "response" /\ emitted.route = "nicknames"
    /\ emitted.status = 400
    /\ nicknames /= <<>>
    /\ nicknamesFile = stringify(nicknames)
    /\ cache.devices /= Null
    /\ cache.devices = applyNicknames(nicknames, cache.devices)

\* C16: every upstream fetch that refreshes a cache entry was started by a
\* REST read that found the entry past its TTL or by a poll of the push
\* loop; no fetch in flight has any other origin.
C16_OnlyLazyOrPolled ==
    \A op \in BagToSet(ops) :
       op.cat \in Categories =>
          \/ op.kind = "rest" /\ op.stale
          \/ op.kind = "poll"

\* The control requests the step has sent to the appliance: the handler's
\* activations suspended at a control method's request, in flight after the
\* step in greater number than before.
SentControl ==
    {op \in BagToSet(ops') :
        /\ op.kind = "control" /\ op.stage = "control"
        /\ CopiesIn(op, ops') > CopiesIn(op, ops)}

\* C18: every control request sent to the appliance carries the session
\* token that getToken holds, obtained less than one hour before: the
\* handler resolved a fresh-enough token or fetched a new one.
C18_ControlTokenFresh ==
    [][ \A op \in SentControl :
           /\ op.arg.v = token'.token
           /\ now - token'.at < 3600000
      ]_vars

\* The requests for the device page that the step has made: activations
\* suspended in getToken's await, in flight after the step in greater
\* number than before.
TokenRequested ==
    {op \in BagToSet(ops') :
        op.stage = "token" /\ CopiesIn(op, ops') > CopiesIn(op, ops)}

\* The step calls getToken: fetchDevices begins (a GET /api/devices past
\* the TTL, the refresh after a control request), or a control request
\* arrives while no devices payload is cached.
GetTokenCalled ==
    \/ RestRead("devices") /\ Expired("devices")
    \/ TimeoutFires
    \/ \E a \in ControlActions : ControlRequest(a) /\ cache.devices = Null

\* C19: getToken requests the device page only when no token is cached or
\* the cached one is at least one hour old; called with a younger token it
\* makes no request, hands the cached token to its caller and leaves the
\* token and its timestamp as they are.
C19_TokenLazy ==
    [][ /\ TokenRequested /= {} =>
              token.token = Absent \/ now - token.at >= 3600000
        /\ GetTokenCalled /\ token.token /= Absent /\ now - token.at < 3600000 =>
              /\ TokenRequested = {}
              /\ token' = token
              /\ \A op \in BagToSet(ops') :
                    CopiesIn(op, ops') > CopiesIn(op, ops) =>
                       op.arg = TokenArg(token.token)
      ]_vars

\* In a run that began with every category cached (the circuit list among
\* them, which no devices read loads), a read that found the devices entry
\* expired is fetching the devices with the token obtained at the start:
\* getToken returned it from its cache, less than an hour old (a request
\* would have moved the timestamp).
C19_Witness ==
    /\ cache.circuits /= Null
    /\ token = [token |-> "777", at |-> StartTime]
    /\ now = StartTime + 3599999
    /\ \E op \in BagToSet(ops) :
          op.kind = "rest" /\ op.stage = "fetch" /\ op.arg = TokenArg("777")

\* C11: every control operation that was invoked completes by returning a
\* value (the acknowledgment, or the error result for an unsuccessful HTTP
\* status) and never by throwing, whatever the appliance did: no control
\* request whose method was invoked is answered from the handler's catch.
C11_ControlNeverThrows ==
    [][ \A op \in BagToSet(ops) : \A o \in ControlReplies :
           op.kind = "control" /\ op.stage = "control" /\ ControlResolve(op, o) =>
              /\ ~ControlCompletion(o).threw
              /\ emitted'.status = 200
              /\ emitted'.body = ControlCompletion(o).value
      ]_vars

\* The nickname an entry shows when it agrees with the mapping.
MappedNickname(d) ==
    IF NickKey(d) \in DOMAIN nicknames THEN nicknames[NickKey(d)] ELSE Absent

\* C6: in every reachable state (so after every nickname change, in every
\* interleaving with device fetches) each AC and floor-heater entry of the
\* devices cache shows the nickname the mapping holds for its key, and none
\* when the mapping has no entry for it.
C6_CacheShowsMapping ==
    cache.devices /= Null =>
       /\ \A i \in 1..Len(cache.devices.acs) :
             cache.devices.acs[i].nickname = MappedNickname(cache.devices.acs[i])
       /\ \A i \in 1..Len(cache.devices.fhs) :
             cache.devices.fhs[i].nickname = MappedNickname(cache.devices.fhs[i])

\* ------------------------------------------------------------------------
\* Claims: getAllCircuitKwh
\* ------------------------------------------------------------------------

\* The requests issued to the appliance and not yet settled.
Outstanding == bulkEnv.issued \ bulkEnv.settled

\* The batch of the circuit at position pos (1-based): positions 1..10 are
\* batch 0, 11..20 batch 1, ...
BatchOf(pos) == (pos - 1) \div 10

\* C9: during one getAllCircuitKwh there are never more than 10 requests
\* outstanding, and a request of a later batch has been issued only when
\* every request of the earlier batches has settled.
C9_BoundedBatches ==
    /\ Cardinality(Outstanding) <= 10
    /\ \A a \in bulkEnv.issued : \A b \in 1..Len(bulk.circuits) :
          BatchOf(b) < BatchOf(a) => b \in bulkEnv.settled

\* The whole of a later batch is outstanding at once.
C9_Witness ==
    /\ Cardinality(Outstanding) = 10
    /\ \A a \in Outstanding : BatchOf(a) = 1
    /\ bulkEnv.settled = 1..10

\* The reading the appliance's page shows for circuit id under behaviour p,
\* written down independently of the parser.
Reading(p, id) ==
    IF p % 4 = 0 THEN Num(1000000 + id * 1000 + 500)
    ELSE Num(id * 1000 + 500)

\* What is left of the call: the requests still to settle and the batches
\* still to finish; 0 once results has been returned.
BulkMeasure ==
    IF bulk.pc = "done" THEN 0
    ELSE 1 + (Len(bulk.circuits) - Cardinality(bulkEnv.settled))
           + (IF bulk.pc = "idle" THEN 1 + ((Len(bulk.circuits) + 9) \div 10)
              ELSE (Len(bulk.circuits) - bulk.i + 9) \div 10)

\* When getAllCircuitKwh has returned: one result per circuit, in circuit
\* order; a result is null exactly when that circuit's request failed or
\* its page had no kWh value, and is that circuit's reading otherwise.
C10_Final ==
    bulk.pc = "done" =>
       /\ Len(bulk.results) = Len(bulk.circuits)
       /\ \A k \in 1..Len(bulk.circuits) :
             LET id  == bulk.circuits[k].id
                 out == UpstreamKwh(bulkEnv.pattern, id)
             IN  /\ bulk.results[k] = Null <=> (out.err \/ ~out.page.span)
                 /\ bulk.results[k] /= Null =>
                       bulk.results[k] = Reading(bulkEnv.pattern, id)

\* C10: for every circuit list and every set of failing requests,
\* getAllCircuitKwh completes once its requests settle (it waits only for
\* requests that are outstanding, and every step brings it closer to its
\* return), with one result per circuit, in circuit order, where a result
\* is null exactly when that circuit's request failed or its page had no
\* kWh value, the other results being the circuits' readings.
C10_Results ==
    /\ [](bulk.pc = "await" =>
            bulk.pending = {j \in 0..9 : bulk.i + j + 1 \in Outstanding})
    /\ [][BulkMeasure' < BulkMeasure]_vars
    /\ []C10_Final

\* A list of three batches has been fetched with every third request
\* failing: some results are null, the others are readings.
C10_Witness ==
    /\ bulk.pc = "done"
    /\ Len(bulk.circuits) > 2 * CONCURRENCY
    /\ bulkEnv.pattern = 2
    /\ \E k \in 1..Len(bulk.results) : bulk.results[k] = Null
    /\ \E k \in 1..Len(bulk.results) : bulk.results[k] /= Null

\* ------------------------------------------------------------------------
\* Claims: setFHLevel
\* ------------------------------------------------------------------------

\* The code of level n: "0x31" for 1 ... "0x39" for 9.
LevelCode(n) == <<"0", "x", "3", DigitChar(n)>>

\* C21: for every whole level asked for, the request setFHLevel sends
\* carries the code of the level clamped into 1..9: the level-1 code for
\* levels below 1, the level-9 code for levels above 9, the level's own
\* code for 1..9; always one of the nine codes.
C21_LevelClamped ==
    act.fn = "setFHLevel" /\ act.pc /= "idle" =>
       /\ act.sent.templevel \in {LevelCode(n) : n \in 1..9}
       /\ act.args.level < 1 => act.sent.templevel = LevelCode(1)
       /\ act.args.level > 9 => act.sent.templevel = LevelCode(9)
       /\ act.args.level \in 1..9 => act.sent.templevel = LevelCode(act.args.level)

\* Level 0 has been asked for and the level-1 code sent.
C21_Witness ==
    /\ act.fn = "setFHLevel" /\ act.pc = "returned"
    /\ act.args.level = 0
    /\ act.sent.templevel = <<"0", "x", "3", "1">>

\* ------------------------------------------------------------------------
\* Claims: getDevices
\* ------------------------------------------------------------------------

\* C22: once the listings are in, getDevices returns whatever the detail
\* requests do; a unit whose detail request failed (no answer, an HTTP
\* error, a body that is not JSON) has mode, tempC and fan null, and every
\* unit whose detail request succeeded has the values of its own detail.
C22_DetailFailureIsolated ==
    [][/\ \A i \in 1..Len(AC_DEVICES) : \A o \in DetailReplies(i) :
            getDevicesDetail(i, o) /\ (o.neterr \/ o.status /= 200 \/ ~o.json) =>
               /\ act'.pc = "details"
               /\ act'.args.acDetails[i] = EmptyObject
               /\ \A j \in 1..Len(AC_DEVICES) \ {i} :
                     act'.args.acDetails[j] = act.args.acDetails[j]
       /\ getDevicesReturn =>
         /\ act'.pc = "returned"
         /\ \A i \in 1..Len(act.args.acData) :
              LET e == act'.ret.acs[i]
                  d == act.args.acDetails[i]
              IN  /\ e.nodeId = AC_DEVICES[i].nodeId
                  /\ d = EmptyObject =>
                        e.mode = Null /\ e.tempC = Null /\ e.fan = Null
                  /\ d \in DetailBodies(i) =>
                        /\ e.mode = d.mode
                        /\ e.mode = Str(<<"0", "x", "4", DetailModes[i]>>)
                        /\ "modify_items" \in DOMAIN d =>
                              /\ e.fan = Str(<<"0", "x", "3", DetailModes[i]>>)
                              /\ e.tempC = Num(1000 * (16 + DigitVal(DetailModes[i])))]_vars

\* getDevices has returned three AC units: the second one's detail request
\* failed and its fields are null, the first and third carry their own.
C22_Witness ==
    /\ act.fn = "getDevices" /\ act.pc = "returned"
    /\ Len(act.ret.acs) = 3
    /\ act.args.acDetails[2] = EmptyObject
    /\ act.ret.acs[2].mode = Null
    /\ act.ret.acs[1].mode = Str(<<"0", "x", "4", "1">>)
    /\ act.ret.acs[3].fan = Str(<<"0", "x", "3", "3">>)
    /\ act.ret.acs[3].tempC = Num(19000)

\* ------------------------------------------------------------------------
\* Claims: the nickname file
\* ------------------------------------------------------------------------

\* C23: between requests the nickname file holds exactly the mapping held
\* in memory: what loadNicknames would read from it is `nicknames`.
C23_FileHoldsMapping == loadNicknames(nicknamesFile) = nicknames

\* ------------------------------------------------------------------------
\* Claims: the loadCircuits message
\* ------------------------------------------------------------------------

\* C24: a loadCircuits message from a connection starts one circuits fetch
\* on behalf of that connection, or is answered at once from the cache; a
\* fetch made on behalf of a connection, when it completes, sends exactly
\* one frame, to that connection alone: a circuits frame when it
\* succeeded, an error frame when it failed, and nothing before that. Any
\* other message sends nothing and changes nothing.
C24_OneReplyToSender ==
    [][/\ \A c \in ClientIds :
            /\ Message(c, "loadCircuits") =>
                  \/ /\ emitted'.kind = "reply"
                     /\ emitted'.to = c
                     /\ emitted'.frame.type = "circuits"
                     /\ ops' = ops
                  \/ /\ emitted' = NoOut
                     /\ \E op \in BagToSet(ops') :
                           /\ op.kind = "ws" /\ op.client = c
                           /\ ops' = ops (+) SetToBag({op})
            /\ Message(c, "other") =>
                  /\ emitted' = NoOut
                  /\ UNCHANGED <<workload, now, ticks, cache, nicknames,
                                 nicknamesFile, token, ops, wsVars, timeouts>>
       /\ \A op \in BagToSet(ops) : \A o \in Outcomes(op) :
            op.kind = "ws" /\ Resolve(op, o) =>
               LET r == FetchStep(op, o)
               IN  /\ r.state = "more" =>
                        /\ emitted' = NoOut
                        /\ r.op.kind = "ws" /\ r.op.client = op.client
                        /\ ops' = (ops (-) SetToBag({op})) (+) SetToBag({r.op})
                   /\ r.state /= "more" =>
                        /\ emitted'.kind = "reply"
                        /\ emitted'.to = op.client
                        /\ emitted'.frame.type =
                              (IF r.state = "ok" THEN "circuits" ELSE "error")
                        /\ ops' = ops (-) SetToBag({op})
       /\ emitted'.kind = "reply" =>
            \/ \E c \in ClientIds : Message(c, "loadCircuits")
            \/ \E op \in BagToSet(ops) : \E o \in Outcomes(op) :
                  op.kind = "ws" /\ Resolve(op, o)
      ]_vars

\* An error frame has just gone to the second connection while the first
\* is open too.
C24_Witness ==
    /\ emitted.kind = "reply"
    /\ emitted.to = 2
    /\ emitted.frame.type = "error"
    /\ clients[1] = "open"

\* ------------------------------------------------------------------------
\* Claims: the push channel keeps delivering
\* ------------------------------------------------------------------------

\* A frame of the category has just been broadcast and connection c is
\* among its receivers.
Delivered(cat, c) ==
    /\ emitted.kind = "broadcast"
    /\ emitted.frame.type = cat
    /\ c \in emitted.to

\* C25: a subscriber that stays connected, with upstream calls succeeding
\* and the timers firing fairly, receives a realtime frame, a totals frame
\* and a devices frame, each of them again and again.
C25_KeepsReceiving ==
    \A cat \in Polled : []<>Delivered(cat, 1)

\* The subscriber has just received a devices frame.
C25_Witness == Delivered("devices", 1) /\ clients[1] = "open"

\* ------------------------------------------------------------------------
\* Claims: the page's WebSocket and its fallback
\* ------------------------------------------------------------------------

\* C26: the REST fallback poll is never running while a WebSocket of the
\* page is open.
C26_NoPollWhileOpen ==
    (\E s \in SocketIds : app.sockets[s] = "open") => ~app.pollTimer

\* The sockets of the page that are connecting or open.
Live(a) == {s \in SocketIds : a.sockets[s] \in {"connecting", "open"}}

\* C38: the page has at most one WebSocket that is connecting or open, at
\* any time and after any interleaving of close events, error events,
\* reconnect timers firing and visibility changes.
C38_OneLiveSocket == Cardinality(Live(app)) <= 1

\* No socket of the page is connecting or open.
Offline(a) == \A s \in SocketIds : a.sockets[s] \notin {"connecting", "open"}

\* C27: when the page becomes visible with no socket connecting or open,
\* a new socket is created at once, no reconnect timer stays pending and
\* the delay is 1 s again; every scheduled reconnect multiplies the delay
\* by 1.5, up to 10 s, which it never exceeds.
C27_VisibleReconnectsNow ==
    [][/\ Visible /\ Offline(app) =>
            /\ app'.ws /= 0
            /\ app'.sockets[app'.ws] = "connecting"
            /\ app.sockets[app'.ws] = "none"
            /\ ~app'.reconnectTimer /\ app'.strays = 0
            /\ app'.reconnectDelay = InitialDelay
       /\ \A s \in SocketIds : SocketCloses(s) \/ SocketFails(s) =>
            /\ 2 * app.reconnectDelay <= DelayCap =>
                  2 * app'.reconnectDelay = 3 * app.reconnectDelay
            /\ app'.reconnectDelay <= DelayCap
            /\ app'.reconnectDelay >= app.reconnectDelay
      ]_vars

\* ------------------------------------------------------------------------
\* Claims: getRealtime
\* ------------------------------------------------------------------------

\* The appliance's field is absent or holds nothing parseFloat reads a
\* number from.
Unparseable(d, field) == parseFloatOf(Field(d, field)) = NaN

\* C28: in the result of getRealtime each of gen_kw, use_kw, solar_w and
\* enefarm_w is a number, and is 0 when the appliance's field is absent or
\* unparseable.
C28_NumericFields ==
    act.fn = "getRealtime" /\ act.pc = "returned" =>
       /\ \A k \in {"gen_kw", "use_kw", "solar_w", "enefarm_w"} : act.ret[k].t = "num"
       /\ Unparseable(act.args, "g_capacity") => act.ret.gen_kw = Num(0)
       /\ Unparseable(act.args, "u_capacity") => act.ret.use_kw = Num(0)
       /\ Unparseable(act.args, "g_d_1_capacity") => act.ret.solar_w = Num(0)
       /\ Unparseable(act.args, "g_d_2_capacity") => act.ret.enefarm_w = Num(0)

\* ------------------------------------------------------------------------
\* Claims: overlapping lazy refreshes
\* ------------------------------------------------------------------------

\* C29: a REST read that finds its category expired starts an upstream
\* fetch of its own, whether or not one of that category is in flight; so
\* two fetches of one category can be in flight together.
C29_NoDeduplication ==
    [][\A cat \in {"realtime", "totals", "devices"} :
          RestRead(cat) /\ Expired(cat) =>
             /\ emitted' = NoOut
             /\ \E op \in BagToSet(ops') :
                   /\ op.kind = "rest" /\ op.cat = cat /\ op.stale
                   /\ CopiesIn(op, ops') = CopiesIn(op, ops) + 1
                   /\ ops' = ops (+) SetToBag({op})
      ]_vars

\* Two fetches of the realtime category, each started by a REST read that
\* came after the expiry, are in flight.
C29_Witness ==
    \E op \in BagToSet(ops) :
       /\ op.kind = "rest" /\ op.cat = "realtime" /\ op.stale
       /\ CopiesIn(op, ops) = 2

\* ------------------------------------------------------------------------
\* Claims: payload and timestamp
\* ------------------------------------------------------------------------

\* The timestamp of a category is non-zero exactly when it has a payload.
StampedIffPresent ==
    \A cat \in Categories : (FetchedAt(cache, cat) /= 0) <=> (Payload(cache, cat) /= Null)

\* C30 as stated: whenever the payload of a category changes, its
\* timestamp is written in the same step (it is the time of that step),
\* and the timestamp changes only with a payload being written; the
\* timestamp is non-zero exactly when a payload is present.
C30_WrittenTogether ==
    /\ []StampedIffPresent
    /\ [][\A cat \in Categories :
            /\ Payload(cache', cat) /= Payload(cache, cat) =>
                  FetchedAt(cache', cat) = now
            /\ FetchedAt(cache', cat) /= FetchedAt(cache, cat) =>
                  FetchedAt(cache', cat) = now /\ Payload(cache', cat) /= Null
         ]_vars

\* A nickname request has just been answered.
NicknameStep ==
    \E req \in StampRequests :
       NickRequest(req, TRUE) /\ UNCHANGED <<bulkVars, digVars, totVars, act, app>>

\* C30, amended: every step that stores the result of a fetch writes the
\* payload and the timestamp of its category together; the one other write
\* to a payload is the nickname request's, which replaces the devices
\* payload by its re-annotated copy and leaves the timestamp as it is. The
\* timestamp is non-zero exactly when a payload is present.
C30_FetchWritesTogether ==
    /\ []StampedIffPresent
    /\ [][\A cat \in Categories :
            /\ Payload(cache', cat) /= Payload(cache, cat) =>
                  \/ FetchedAt(cache', cat) = now /\ ~NicknameStep
                  \/ /\ cat = "devices" /\ NicknameStep
                     /\ cache.devices /= Null /\ cache'.devices /= Null
                     /\ cache'.devicesAt = cache.devicesAt
            /\ FetchedAt(cache', cat) /= FetchedAt(cache, cat) =>
                  FetchedAt(cache', cat) = now /\ Payload(cache', cat) /= Null
         ]_vars

\* A nickname request has just re-annotated a devices payload fetched
\* earlier: the payload is new, its timestamp is the old one.
C30_Witness ==
    /\ emitted.kind = "response" /\ emitted.route = "nicknames"
    /\ emitted.status = 200
    /\ cache.devices /= Null
    /\ cache.devicesAt /= 0 /\ cache.devicesAt < now
    /\ cache.devices.acs[1].nickname = "Den"

\* ------------------------------------------------------------------------
\* Claims: overlapping fetches and the order of their results
\* ------------------------------------------------------------------------

\* C32: a cached payload is never replaced by the response to an older
\* request: when fetches of one category overlap, no step stores the result
\* of a fetch that began before the fetch whose result the cache holds.
C32_NewestStays ==
    [][\A cat \in Categories : cache'.requested[cat] >= cache.requested[cat]]_vars

\* ------------------------------------------------------------------------
\* Claims: a refresh whose upstream requests all fail
\* ------------------------------------------------------------------------

\* C33: a cache entry that holds data is not overwritten by a refresh whose
\* upstream requests all failed: whatever began the refresh (a read, the
\* pre-warm, a poll, the refresh after a control request, a loadCircuits
\* message), the payload of its category and the circuit list are after it
\* what they were before.
C33_DataSurvivesFailure ==
    [][ \A op \in BagToSet(ops) : \A o \in Outcomes(op) :
           /\ Resolve(op, o)
           /\ AllFailed(op, o)
           /\ Payload(cache, op.cat) /= Null
           => /\ Payload(cache', op.cat) = Payload(cache, op.cat)
              /\ cache'.circuits = cache.circuits
      ]_vars

\* ------------------------------------------------------------------------
\* Claims: overlapping circuits reads
\* ------------------------------------------------------------------------

\* What a request for the circuit's kWh page can give: the reading the
\* appliance shows for that circuit id, or null when the request fails.
FetchedFor(id) == { getCircuitKwh(UpstreamKwh(p, id)) : p \in {1, 3} }

\* C34: in every reachable state each entry of the circuit-kWh cache pairs
\* a circuit id and name with the kWh value fetched for that same id, also
\* when circuits reads overlap while the circuit list is not loaded.
C34_KwhOfSameCircuit ==
    cache.circuitKwh /= Null =>
       \A i \in 1..Len(cache.circuitKwh.items) :
          cache.circuitKwh.items[i].kwh \in FetchedFor(cache.circuitKwh.items[i].id)

\* ------------------------------------------------------------------------
\* Claims: kWh requests across the server
\* ------------------------------------------------------------------------

\* The per-circuit requests a suspended activation has outstanding when
\* none of its current batch has settled: getAllCircuitKwh issues a whole
\* batch, 10 requests or the circuits there are, before it awaits.
RequestsOf(op) ==
    IF op.cat = "circuitKwh" /\ op.stage = "kwh"
    THEN Min(CONCURRENCY, Len(op.arg.items))
    ELSE 0

RECURSIVE SumRequests(_)
SumRequests(S) ==
    IF S = {} THEN 0
    ELSE LET op == CHOOSE x \in S : TRUE
         IN  CopiesIn(op, ops) * RequestsOf(op) + SumRequests(S \ {op})

\* The per-circuit kWh requests outstanding to the appliance, over all
\* activations.
KwhOutstanding == SumRequests(BagToSet(ops))

\* C35: across the whole server there are never more than 10 per-circuit
\* kWh requests outstanding to the appliance, whatever the interleaving of
\* GET /api/circuits requests and loadCircuits messages.
C35_TenAcrossServer == KwhOutstanding <= CONCURRENCY

\* ------------------------------------------------------------------------
\* Claims: the circuit-list parser
\* ------------------------------------------------------------------------

\* The text between the first "(" and the last ")" of a script, trimmed.
ArgumentOf(s) == trim(SubSeq(s, indexOf(s, "(") + 1, lastIndexOf(s, ")") - 1))

\* The script holds the marker and its argument parses as JSON.
ParsesAsJson(s) ==
    /\ includes(s)
    /\ indexOf(s, "(") > 0 /\ lastIndexOf(s, ")") > indexOf(s, "(")
    /\ Parses(ArgumentOf(s))

\* The value's list, where it has one.
ListOf(data) ==
    IF data.t = "object" /\ "arrayCircuitNameList" \in DOMAIN data
       /\ data.arrayCircuitNameList.t = "array"
    THEN data.arrayCircuitNameList.items
    ELSE <<>>

IsEnabled(c) ==
    c.t = "object" /\ "strBtnType" \in DOMAIN c /\ c.strBtnType = Str(<<"1">>)

\* The enabled circuits of a parsed value: the entries of its list with the
\* enabled button type, in order, as id and name.
EnabledCircuits(data) ==
    LET on == SelectSeq(ListOf(data), IsEnabled)
    IN  [k \in 1..Len(on) |-> [id |-> String(on[k].strId), name |-> nameOf(on[k])]]

\* C31: the circuit-list parser returns the enabled circuits of the first
\* script block, in page order, that holds the marker and whose argument
\* parses as JSON, passing over the blocks without the marker and the
\* marker blocks that do not parse; it returns the empty list when no block
\* parses, and raises on no markup.
C31_FirstParsingBlock ==
    act.fn = "getCircuits" =>
       /\ act.pc = "threw" => act.ret.from = "digestFetch"
       /\ act.pc = "returned" =>
             LET scripts == scriptsOf(act.args)
                 parsing == { k \in 1..Len(scripts) : ParsesAsJson(scripts[k]) }
             IN  IF parsing = {} THEN act.ret = Array(<<>>)
                 ELSE LET first == CHOOSE k \in parsing : \A j \in parsing : k <= j
                      IN  act.ret =
                             Array(EnabledCircuits(JSONparse(ArgumentOf(scripts[first])[1])))

\* The same, for the pages whose parsing blocks all hold an object whose
\* list, when it has one, is an array of objects.
C31_WellShaped ==
    (\A k \in 1..Len(scriptsOf(act.args)) :
        ParsesAsJson(scriptsOf(act.args)[k]) =>
           ~TypeError(JSONparse(ArgumentOf(scriptsOf(act.args)[k])[1])))
    => C31_FirstParsingBlock

\* ------------------------------------------------------------------------
\* Claims: getTotals
\* ------------------------------------------------------------------------

\* The scrape of page k failed: the request was rejected, or the pattern
\* found no reading in the page.
ScrapeFailed(k) ==
    totEnv.scrapes[k].err \/ ~PatternMatches(totEnv.scrapes[k].page)

\* C12: getTotals never ends by throwing, and the result it returns has
\* exactly the keys solar, consumption, purchase and sold; a key is null
\* exactly when its own scrape failed (rejected request or pattern miss),
\* and otherwise holds the number parsed from its own page, whatever
\* became of the other three.
C12_TotalsPerCategory ==
    /\ tot.pc /= "threw"
    /\ tot.pc = "done" =>
          /\ DOMAIN tot.ret = TotalsKeys
          /\ \A k \in TotalsKeys :
                /\ tot.ret[k] = Null <=> ScrapeFailed(k)
                /\ ~ScrapeFailed(k) =>
                      tot.ret[k] = ParseFloat(ReplaceFirstComma(totEnv.scrapes[k].page.text))

\* getTotals has returned with exactly the purchase scrape failed, by a
\* rejected request, and a reading in each of the others.
C12_Witness ==
    /\ tot.pc = "done"
    /\ totEnv.scrapes["purchase"].err
    /\ tot.ret["purchase"] = Null
    /\ \A k \in TotalsKeys \ {"purchase"} :
          ~ScrapeFailed(k) /\ tot.ret[k] = Num(1500)

\* ------------------------------------------------------------------------
\* Claims: digest transport
\* ------------------------------------------------------------------------

\* C3: one call of digestFetch or devicePost sends exactly one request when
\* the first response is not 401 and returns that response as it is; it
\* sends exactly two when the first response is 401 and returns the second
\* response whatever its status (a second 401 too), never a third request,
\* and throws only when a fetch itself failed, never because of a status.
C3_OneRetry ==
    /\ Len(dig.sent) <= 2
    /\ dig.pc = "threw" => digEnv.neterr
    /\ (dig.pc \in {"returned", "threw"} /\ digEnv.r1.n = 0) =>
          Len(dig.sent) = 1
    /\ (dig.pc = "returned" /\ digEnv.r1.n = 1 /\ digEnv.r1.status /= 401) =>
          /\ Len(dig.sent) = 1
          /\ dig.ret = digEnv.r1
    /\ (digEnv.r1.n = 1 /\ digEnv.r1.status = 401) =>
          /\ Len(dig.sent) = 2
          /\ digEnv.r2.n = 2 => (dig.pc = "returned" /\ dig.ret = digEnv.r2)

\* A call whose two responses were both 401 has returned the second.
C3_Witness ==
    /\ dig.pc = "returned"
    /\ digEnv.r1.n = 1 /\ digEnv.r1.status = 401
    /\ digEnv.r2.n = 2 /\ digEnv.r2.status = 401
    /\ dig.call.fn = "devicePost"

\* The value a challenge gives a parameter as name="value": that of the
\* last such item with a value, Absent when there is none.
Specified(header, k) ==
    LET idx == {i \in 1..Len(header) :
                   header[i].k = k /\ header[i].quoted /\ header[i].v /= ""}
    IN  IF idx = {} THEN Absent
        ELSE header[CHOOSE i \in idx : \A j \in idx : j <= i].v

\* C20: the request retried after a 401 carries the response digest
\* hash(HA1:nonce:nc:cnonce:auth:HA2) when the challenge's qop is auth and
\* hash(HA1:nonce:HA2) when it is anything else or missing, with
\* HA1 = hash(user:realm:password) over the challenge's realm (AiSEG when
\* it has none), HA2 = hash(method:path) over the method and the path of
\* the request as first sent, and a uri field equal to that path, query
\* string included.
C20_DigestFormula ==
    Len(dig.sent) = 2 =>
       LET ch    == digEnv.r1.wwwAuthenticate
           a     == dig.sent[2].authorization
           realm == IF Specified(ch, "realm") = Absent THEN "AiSEG"
                    ELSE Specified(ch, "realm")
           nonce == IF Specified(ch, "nonce") = Absent THEN ""
                    ELSE Specified(ch, "nonce")
           HA1   == md5(<<"aiseg", realm, "0123456789">>)
           HA2   == md5(<<dig.sent[1].method, dig.call.path>>)
       IN  /\ a.response =
                 IF Specified(ch, "qop") = "auth"
                 THEN md5(<<HA1, nonce, "00000001", a.cnonce, "auth", HA2>>)
                 ELSE md5(<<HA1, nonce, HA2>>)
           /\ Specified(ch, "qop") = "auth" => a.cnonce \in CNonces
           /\ a.uri = dig.call.path
           /\ dig.sent[2].url = dig.sent[1].url
           /\ dig.sent[2].method = dig.sent[1].method

\* A request for a path with a query string has been retried on a
\* challenge with qop auth.
C20_Witness ==
    /\ Len(dig.sent) = 2
    /\ dig.call.path = "/page/graph/584?data=e30"
    /\ Specified(digEnv.r1.wwwAuthenticate, "qop") = "auth"
    /\ dig.sent[2].authorization.uri = "/page/graph/584?data=e30"

\* The digest of the retried request is the one of the qop formula,
\* hash(HA1:nonce:nc:cnonce:auth:HA2), for the fields its header shows.
UsesQopFormula(a, method, path) ==
    \E cnonce \in CNonces :
       a.response = md5(<<md5(<<USER, a.realm, PASS>>), a.nonce, "00000001",
                          cnonce, "auth", md5(<<method, path>>)>>)

\* C36: for every challenge, the Authorization header of the retried
\* request carries the qop, nc and cnonce fields exactly when its response
\* digest was computed with the qop formula.
C36_HeaderMatchesDigest ==
    Len(dig.sent) = 2 =>
       LET a == dig.sent[2].authorization
       IN  (a.qop /= Absent /\ a.nc /= Absent /\ a.cnonce /= Absent)
              <=> UsesQopFormula(a, dig.sent[1].method, dig.call.path)

====
